---- MODULE Spec2Model ----
(***************************************************************************)
(* A model of mutagen's file splicing primitives (mutagen/_util.py:        *)
(* insert_bytes, delete_bytes) and of its APEv2 tag reader/writer          *)
(* (mutagen/apev2.py: _APEv2Data, APEv2, APEValue).                        *)
(*                                                                         *)
(* A file is a sequence of bytes (naturals below 256); position p of the   *)
(* Python file object is the element p + 1 of the sequence.                *)
(***************************************************************************)
EXTENDS Integers, Sequences, FiniteSets, TLC

VARIABLES
    file,       \* the bytes of the file on disk
    dict,       \* APEv2.__dict: sequence of <<lowercased key, value>>, in insertion order
    casemap,    \* APEv2.__casemap: set of <<lowercased key, key as last written>>
    last,       \* the last operation: its name, arguments, outcome, and the state it started from
    prev,       \* the operation before the last one
    steps       \* number of operations performed so far

vars == <<file, dict, casemap, last, prev, steps>>

----------------------------------------------------------------------------
(* Bounds of the model *)

\* longest file the splice specification starts from
MaxLen == 4
\* largest size argument given to insert_bytes / delete_bytes
MaxSize == 2
\* largest BUFFER_SIZE argument given to insert_bytes / delete_bytes
MaxBuf == 2
\* operations per behaviour of the tag specification
MaxSteps == 3

----------------------------------------------------------------------------
(* Byte strings and the file object *)

Min(a, b) == IF a < b THEN a ELSE b
Max(a, b) == IF a < b THEN b ELSE a

\* b'\x00' * n
Zeros(n) == [i \in 1..n |-> 0]

\* data[a:b] for 0 <= a, clipped to the end of the data like a Python slice
Slice(data, a, b) == SubSeq(data, a + 1, Min(b, Len(data)))

\* fobj.seek(pos); fobj.read(n) for n >= 0: at most n bytes, fewer at end of file
ReadAt(f, pos, n) == IF pos >= Len(f) THEN <<>> ELSE Slice(f, pos, pos + n)

\* fobj.seek(pos); fobj.read(n) for n < 0, which reads up to the end of the file
ReadAll(f, pos) == IF pos >= Len(f) THEN <<>> ELSE Slice(f, pos, Len(f))

\* fobj.seek(pos); fobj.write(data): a write past the end zero-fills the hole,
\* a write of no bytes changes nothing
WriteAt(f, pos, data) ==
    IF Len(data) = 0 THEN f
    ELSE LET base == IF pos > Len(f) THEN f \o Zeros(pos - Len(f)) ELSE f
             n == Max(Len(base), pos + Len(data))
         IN [i \in 1..n |-> IF i > pos /\ i <= pos + Len(data) THEN data[i - pos]
                            ELSE base[i]]

\* fobj.truncate(n)
Truncate(f, n) == IF n <= Len(f) THEN SubSeq(f, 1, n) ELSE f \o Zeros(n - Len(f))

\* mmap.move(dest, src, count) raises ValueError unless the three are
\* non-negative and both ranges lie within the map of `length` bytes
MoveInRange(length, dest, src, count) ==
    /\ dest >= 0 /\ src >= 0 /\ count >= 0
    /\ src + count <= length
    /\ dest + count <= length

\* mmap.move(dest, src, count): a memmove within the mapped file
MmapMove(f, dest, src, count) ==
    [i \in 1..Len(f) |-> IF i > dest /\ i <= dest + count THEN f[i - dest + src] ELSE f[i]]

----------------------------------------------------------------------------
(* insert_bytes (mutagen/_util.py) *)

\* a padding loop that writes a whole buffer each time (min forgotten)
RECURSIVE InsertPadWholeBuffer(_, _, _)
InsertPadWholeBuffer(f, padsize, BUFFER_SIZE) ==
    IF padsize = 0 THEN f
    ELSE LET addsize == Min(BUFFER_SIZE, padsize)
         IN InsertPadWholeBuffer(WriteAt(f, Len(f), Zeros(BUFFER_SIZE)), padsize - addsize,
                                 BUFFER_SIZE)

\* the padding loop of the fallback: writes padsize zero bytes at the end of
\* the file, at most BUFFER_SIZE at a time
RECURSIVE InsertPad(_, _, _)
InsertPad(f, padsize, BUFFER_SIZE) ==
    IF padsize = 0 THEN f
    ELSE LET addsize == Min(BUFFER_SIZE, padsize)
         IN InsertPad(WriteAt(f, Len(f), Zeros(addsize)), padsize - addsize, BUFFER_SIZE)

\* the move loop of the fallback, with the file position at pos.  A negative
\* movesize (offset beyond the end of the file) makes thismove negative:
\* read(-1) reads to the end of the file, read(n) for n < -1 reads to the end
\* of the file on Python 2 and raises ValueError on Python 3 (negReadAll says
\* which).
RECURSIVE InsertMove(_, _, _, _, _, _)
InsertMove(f, pos, movesize, size, BUFFER_SIZE, negReadAll) ==
    IF movesize = 0 THEN [file |-> f, err |-> "ok"]
    ELSE LET thismove == Min(BUFFER_SIZE, movesize)
             nextpos == pos - thismove
             data == IF thismove >= 0 THEN ReadAt(f, nextpos, thismove) ELSE ReadAll(f, nextpos)
             afterread == IF thismove >= 0 THEN nextpos + Len(data) ELSE Max(nextpos, Len(f))
             writepos == afterread - thismove + size
         IN IF thismove < -1 /\ ~negReadAll
            THEN [file |-> f, err |-> "ValueError"]
            ELSE InsertMove(WriteAt(f, writepos, data), nextpos, movesize - thismove,
                            size, BUFFER_SIZE, negReadAll)

\* the except branch: truncate back, pad, move block by block from the tail
InsertFallback(fobj, size, offset, BUFFER_SIZE, negReadAll) ==
    LET filesize == Len(fobj)
        padded == InsertPad(Truncate(fobj \o Zeros(size), filesize), size, BUFFER_SIZE)
    IN InsertMove(padded, filesize, filesize - offset, size, BUFFER_SIZE, negReadAll)

\* an mmap branch that moves the tail onto itself (size forgotten in the destination)
InsertMmapNoShift(fobj, size, offset) ==
    LET filesize == Len(fobj)
    IN [file |-> MmapMove(fobj \o Zeros(size), offset, offset, filesize - offset),
        err |-> "ok"]

\* the mmap branch, taken when mmap is usable and the move is in range
InsertMmap(fobj, size, offset) ==
    LET filesize == Len(fobj)
    IN [file |-> MmapMove(fobj \o Zeros(size), offset + size, offset, filesize - offset),
        err |-> "ok"]

\* insert_bytes(fobj, size, offset, BUFFER_SIZE); mmapOk: whether mmap is
\* importable and maps the file
insert_bytes(fobj, size, offset, BUFFER_SIZE, mmapOk, negReadAll) ==
    IF ~(0 < size) \/ ~(0 <= offset) THEN [file |-> fobj, err |-> "AssertionError"]
    ELSE LET filesize == Len(fobj)
             movesize == filesize - offset
         IN IF mmapOk /\ MoveInRange(filesize + size, offset + size, offset, movesize)
            THEN InsertMmap(fobj, size, offset)
            ELSE InsertFallback(fobj, size, offset, BUFFER_SIZE, negReadAll)

----------------------------------------------------------------------------
(* delete_bytes (mutagen/_util.py) *)

\* the move loop of the fallback: copies the tail down block by block
RECURSIVE DeleteMove(_, _, _, _)
DeleteMove(f, offset, size, BUFFER_SIZE) ==
    LET buf == ReadAt(f, offset + size, BUFFER_SIZE)
    IN IF Len(buf) = 0 THEN f
       ELSE DeleteMove(WriteAt(f, offset, buf), offset + Len(buf), size, BUFFER_SIZE)

\* an mmap branch that moves one byte too few
DeleteMmapShort(fobj, size, offset) ==
    MmapMove(fobj, offset, offset + size, Len(fobj) - offset - size - 1)

\* the mmap branch of delete_bytes
DeleteMmap(fobj, size, offset) ==
    MmapMove(fobj, offset, offset + size, Len(fobj) - offset - size)

\* a delete_bytes that moves the tail and forgets to truncate the file
delete_bytes_no_truncate(fobj, size, offset, BUFFER_SIZE, mmapOk) ==
    LET filesize == Len(fobj)
        movesize == filesize - offset - size
    IN IF ~(0 < size) \/ ~(0 <= offset) \/ ~(0 <= movesize)
       THEN [file |-> fobj, err |-> "AssertionError"]
       ELSE [file |-> IF movesize > 0
                      THEN IF mmapOk THEN DeleteMmap(fobj, size, offset)
                           ELSE DeleteMove(fobj, offset, size, BUFFER_SIZE)
                      ELSE fobj,
             err |-> "ok"]

\* a delete_bytes without the assertion on movesize
delete_bytes_unchecked(fobj, size, offset, BUFFER_SIZE, mmapOk) ==
    LET filesize == Len(fobj)
        movesize == filesize - offset - size
    IN IF ~(0 < size) \/ ~(0 <= offset)
       THEN [file |-> fobj, err |-> "AssertionError"]
       ELSE LET moved == IF movesize > 0
                         THEN IF mmapOk THEN DeleteMmap(fobj, size, offset)
                              ELSE DeleteMove(fobj, offset, size, BUFFER_SIZE)
                         ELSE fobj
            IN [file |-> Truncate(moved, Max(filesize - size, 0)), err |-> "ok"]

\* delete_bytes(fobj, size, offset, BUFFER_SIZE)
delete_bytes(fobj, size, offset, BUFFER_SIZE, mmapOk) ==
    LET filesize == Len(fobj)
        movesize == filesize - offset - size
    IN IF ~(0 < size) \/ ~(0 <= offset) \/ ~(0 <= movesize)
       THEN [file |-> fobj, err |-> "AssertionError"]
       ELSE LET moved == IF movesize > 0
                         THEN IF mmapOk THEN DeleteMmap(fobj, size, offset)
                              ELSE DeleteMove(fobj, offset, size, BUFFER_SIZE)
                         ELSE fobj
            IN [file |-> Truncate(moved, filesize - size), err |-> "ok"]

----------------------------------------------------------------------------
(* Constants of mutagen/apev2.py *)

APETAGEX == <<65, 80, 69, 84, 65, 71, 69, 88>>          \* b"APETAGEX"
TAG == <<84, 65, 71>>                                   \* b"TAG"
LYRICS200 == <<76, 89, 82, 73, 67, 83, 50, 48, 48>>     \* b"LYRICS200"
\* the keys is_valid_apev2_key refuses: b"OggS", b"TAG", b"ID3", b"MP+"
ReservedKeys == {<<79, 103, 103, 83>>, <<84, 65, 71>>, <<73, 68, 51>>, <<77, 80, 43>>}

TEXT == 0
BINARY == 1
EXTERNAL == 2

\* the length of a header or footer, and of the ID3v1 trailer
HeaderLen == 32
ID3v1Len == 128
\* the step of the scan for headers left by PyMusepack
BrokenStep == 24
\* the version save writes
Version == 2000
\* BUFFER_SIZE=2**16, the default of insert_bytes and delete_bytes
DefaultBufferSize == 65536

\* Python's None and a present value
None == <<>>
Some(x) == <<x>>

\* cdata.uint_le: struct.unpack('<I', data)
uint_le(b) == b[1] + 256 * b[2] + 65536 * b[3] + 16777216 * b[4]
\* struct_pack('<I', n)
to_uint_le(n) == <<n % 256, (n \div 256) % 256, (n \div 65536) % 256, (n \div 16777216) % 256>>

\* flags & HAS_HEADER, HAS_HEADER = 1 << 31: the top bit of the last byte of
\* the little-endian flags word
HasHeaderFlag(flagbytes) == flagbytes[4] \div 128 = 1
\* struct_pack('<I', HAS_HEADER|IS_HEADER): bits 31 and 29
HeaderFlags == <<0, 0, 0, 160>>
\* struct_pack('<I', HAS_HEADER): bit 31
FooterFlags == <<0, 0, 0, 128>>

----------------------------------------------------------------------------
(* _APEv2Data: locating the tag *)

IsDigit(c) == c >= 48 /\ c <= 57

\* int(b) for a string of ASCII digits
RECURSIVE DecimalValue(_)
DecimalValue(b) ==
    IF Len(b) = 0 THEN 0
    ELSE 10 * DecimalValue(SubSeq(b, 1, Len(b) - 1)) + (b[Len(b)] - 48)

\* a probe that forgets the six bytes of the size field when it steps back
\* over the Lyrics3v2 block
ID3ProbeNoSizeField(f) ==
    LET n == Len(f)
    IN IF n < ID3v1Len THEN None
       ELSE IF ReadAt(f, n - 128, 3) # TAG THEN None
       ELSE IF n - 160 < 0 THEN None
       ELSE IF ReadAt(f, n - 160, 8) = APETAGEX THEN Some(n - 160)
       ELSE IF ReadAt(f, n - 137, 9) # LYRICS200 THEN None
       ELSE LET digits == ReadAt(f, n - 143, 6)
            IN IF ~(Len(digits) = 6 /\ \A i \in 1..6 : IsDigit(digits[i])) THEN None
               ELSE LET offset == DecimalValue(digits)
                        pos == n - 137 - 32 - offset
                    IN IF pos < 0 THEN None
                       ELSE IF ReadAt(f, pos, 8) = APETAGEX THEN Some(pos)
                       ELSE None

\* the second probe of __find_metadata: an APEv2 tag followed by an ID3v1 tag,
\* with or without a Lyrics3v2 block between them.  Some(footer), or None when
\* the probe finds nothing or a seek or int() fails (IOError: pass).
ID3Probe(f) ==
    LET n == Len(f)
    IN IF n < ID3v1Len THEN None                                   \* seek(-128, 2) fails
       ELSE IF ReadAt(f, n - 128, 3) # TAG THEN None
       ELSE IF n - 160 < 0 THEN None                               \* seek(-35, 1) fails
       ELSE IF ReadAt(f, n - 160, 8) = APETAGEX THEN Some(n - 160)
       ELSE IF ReadAt(f, n - 137, 9) # LYRICS200 THEN None         \* seek(15, 1)
       ELSE LET digits == ReadAt(f, n - 143, 6)                    \* seek(-15, 1)
            IN IF ~(Len(digits) = 6 /\ \A i \in 1..6 : IsDigit(digits[i])) THEN None
               ELSE LET offset == DecimalValue(digits)
                        pos == n - 137 - 32 - offset - 6           \* seek(-32 - offset - 6, 1)
                    IN IF pos < 0 THEN None
                       ELSE IF ReadAt(f, pos, 8) = APETAGEX THEN Some(pos)
                       ELSE None

\* a locator that looks at the start of the file first
find_metadata_start_first(f) ==
    LET n == Len(f)
        nothing == [header |-> None, footer |-> None, is_at_start |-> FALSE]
    IN IF n < HeaderLen THEN nothing
       ELSE IF ReadAt(f, 0, 8) = APETAGEX
            THEN [header |-> Some(0), footer |-> None, is_at_start |-> TRUE]
       ELSE IF ReadAt(f, n - 32, 8) = APETAGEX
            THEN [header |-> None, footer |-> Some(n - 32), is_at_start |-> FALSE]
       ELSE IF ID3Probe(f) # None
            THEN [header |-> None, footer |-> ID3Probe(f), is_at_start |-> FALSE]
       ELSE nothing

\* __find_metadata: the footer at the end, else the footer before an ID3v1
\* tag, else the header at the start
find_metadata(f) ==
    LET n == Len(f)
        nothing == [header |-> None, footer |-> None, is_at_start |-> FALSE]
    IN IF n < HeaderLen THEN nothing                               \* seek(-32, 2) fails
       ELSE IF ReadAt(f, n - 32, 8) = APETAGEX
            THEN [header |-> None, footer |-> Some(n - 32), is_at_start |-> FALSE]
       ELSE IF ID3Probe(f) # None
            THEN [header |-> None, footer |-> ID3Probe(f), is_at_start |-> FALSE]
       ELSE IF ReadAt(f, 0, 8) = APETAGEX
            THEN [header |-> Some(0), footer |-> None, is_at_start |-> TRUE]
       ELSE nothing

\* a __fill_missing that places a header before the items of every tag found
\* through its footer
fill_missing_always_header(f, found) ==
    LET metadata == IF found.header # None THEN found.header[1] ELSE found.footer[1]
        version == ReadAt(f, metadata + 8, 4)
        size == uint_le(ReadAt(f, metadata + 12, 4))
        items == uint_le(ReadAt(f, metadata + 16, 4))
        flags == ReadAt(f, metadata + 20, 4)
        fields == [metadata |-> Some(metadata), version |-> version, size |-> size,
                   items |-> items, flags |-> flags, is_at_start |-> found.is_at_start]
    IN IF found.header # None
       THEN LET data == found.header[1] + 32
                end == data + size
            IN fields @@ [header |-> found.header, data |-> Some(data), end |-> Some(end),
                          footer |-> IF ReadAt(f, end - 32, 8) = APETAGEX
                                     THEN Some(end - 32) ELSE found.footer]
       ELSE LET end == found.footer[1] + 32
                data == end - size
            IN fields @@ [footer |-> found.footer, end |-> Some(end), data |-> Some(data),
                          header |-> Some(data - 32)]

\* __fill_missing: reads version, size, items and flags at `metadata` and
\* derives the offsets that __find_metadata did not set
fill_missing(f, found) ==
    LET metadata == IF found.header # None THEN found.header[1] ELSE found.footer[1]
        version == ReadAt(f, metadata + 8, 4)
        size == uint_le(ReadAt(f, metadata + 12, 4))
        items == uint_le(ReadAt(f, metadata + 16, 4))
        flags == ReadAt(f, metadata + 20, 4)
        fields == [metadata |-> Some(metadata), version |-> version, size |-> size,
                   items |-> items, flags |-> flags, is_at_start |-> found.is_at_start]
    IN IF found.header # None
       THEN LET data == found.header[1] + 32
                end == data + size
            IN fields @@ [header |-> found.header, data |-> Some(data), end |-> Some(end),
                          footer |-> IF ReadAt(f, end - 32, 8) = APETAGEX
                                     THEN Some(end - 32) ELSE found.footer]
       ELSE LET end == found.footer[1] + 32
                data == end - size
            IN fields @@ [footer |-> found.footer, end |-> Some(end), data |-> Some(data),
                          header |-> IF HasHeaderFlag(flags) THEN Some(data - 32)
                                     ELSE Some(data)]

\* a scan that looks for one header left before the tag and no further
BrokenStartOnce(f, start) ==
    IF start - BrokenStep >= 0 /\ ReadAt(f, start - BrokenStep, 8) = APETAGEX
    THEN start - BrokenStep ELSE start

\* the loop of __fix_brokenness: start moves back 24 bytes at a time while the
\* cookie is found there; a seek before the start of the file ends the loop
RECURSIVE BrokenStart(_, _)
BrokenStart(f, start) ==
    IF ~(start > 0) THEN start
    ELSE IF start - BrokenStep < 0 THEN start
    ELSE IF ReadAt(f, start - BrokenStep, 8) = APETAGEX THEN BrokenStart(f, start - BrokenStep)
    ELSE start

\* what _APEv2Data holds when no header and no footer is found
NoData == [err |-> "ok", start |-> None, header |-> None, data |-> None, footer |-> None,
           end |-> None, metadata |-> None, version |-> None, size |-> None,
           items |-> None, flags |-> None, is_at_start |-> FALSE, tag |-> None]

\* _APEv2Data(fileobj): err is "IOError" when the seek to a negative start fails
APEv2Data(f) ==
    LET Filled(m) ==
            IF m.header[1] < 0
            THEN [NoData EXCEPT !.err = "IOError"]
            ELSE [err |-> "ok", start |-> Some(BrokenStart(f, m.header[1])),
                  header |-> m.header, data |-> m.data, footer |-> m.footer,
                  end |-> m.end, metadata |-> m.metadata,
                  version |-> Some(m.version), size |-> Some(m.size),
                  items |-> Some(m.items), flags |-> Some(m.flags),
                  is_at_start |-> m.is_at_start,
                  tag |-> Some(ReadAt(f, m.data[1], m.size))]
        Found(found) ==
            IF found.header = None /\ found.footer = None THEN NoData
            ELSE Filled(fill_missing(f, found))
    IN Found(find_metadata(f))

----------------------------------------------------------------------------
(* Text: UTF-8, keys *)

\* bytes.decode("utf-8") succeeds
RECURSIVE IsValidUtf8(_)
IsValidUtf8(b) ==
    IF \A i \in 1..Len(b) : b[i] < 128 THEN TRUE      \* ASCII, the empty string included
    ELSE LET c == b[1]
             cont(i, lo, hi) == Len(b) >= i /\ b[i] >= lo /\ b[i] <= hi
             rest(k) == IsValidUtf8(SubSeq(b, k + 1, Len(b)))
         IN IF c < 128 THEN rest(1)
            ELSE IF c >= 194 /\ c <= 223 THEN cont(2, 128, 191) /\ rest(2)
            ELSE IF c = 224 THEN cont(2, 160, 191) /\ cont(3, 128, 191) /\ rest(3)
            ELSE IF c = 237 THEN cont(2, 128, 159) /\ cont(3, 128, 191) /\ rest(3)
            ELSE IF c >= 225 /\ c <= 239 THEN cont(2, 128, 191) /\ cont(3, 128, 191) /\ rest(3)
            ELSE IF c = 240
                 THEN cont(2, 144, 191) /\ cont(3, 128, 191) /\ cont(4, 128, 191) /\ rest(4)
            ELSE IF c >= 241 /\ c <= 243
                 THEN cont(2, 128, 191) /\ cont(3, 128, 191) /\ cont(4, 128, 191) /\ rest(4)
            ELSE IF c = 244
                 THEN cont(2, 128, 143) /\ cont(3, 128, 191) /\ cont(4, 128, 191) /\ rest(4)
            ELSE FALSE

\* utf8(text): the UTF-8 encoding of a string of code points below 65536.
\* A string of ASCII characters encodes as itself; any other is encoded
\* character by character.
RECURSIVE utf8(_)
utf8(text) ==
    IF \A i \in 1..Len(text) : text[i] < 128 THEN text
    ELSE IF Len(text) = 1
         THEN LET c == text[1]
              IN IF c < 2048 THEN <<192 + (c \div 64), 128 + (c % 64)>>
                 ELSE <<224 + (c \div 4096), 128 + ((c \div 64) % 64), 128 + (c % 64)>>
    ELSE utf8(SubSeq(text, 1, Len(text) \div 2))
             \o utf8(SubSeq(text, Len(text) \div 2 + 1, Len(text)))

\* key.lower()
lower(key) == [i \in 1..Len(key) |-> IF key[i] >= 65 /\ key[i] <= 90 THEN key[i] + 32 ELSE key[i]]

\* a key check without the upper bound on the length
is_valid_apev2_key_no_max(key) ==
    LET k == utf8(key)
    IN /\ 2 <= Len(k)
       /\ \A i \in 1..Len(k) : k[i] >= 32 /\ k[i] <= 126
       /\ k \notin ReservedKeys

\* is_valid_apev2_key(key)
is_valid_apev2_key(key) ==
    LET k == utf8(key)
    IN /\ 2 <= Len(k) /\ Len(k) <= 255
       /\ \A i \in 1..Len(k) : k[i] >= 32 /\ k[i] <= 126
       /\ k \notin ReservedKeys

----------------------------------------------------------------------------
(* Values and the dictionary of an APEv2 object *)

\* APEValue(value, kind): the object keeps value and kind as given; isbytes
\* tells a byte string from a text (str) object
APEValue(value, kind, isbytes) == [kind |-> kind, value |-> value, isbytes |-> isbytes]

\* b"\0".join(parts)
RECURSIVE JoinNul(_)
JoinNul(parts) ==
    IF Len(parts) = 0 THEN <<>>
    ELSE IF Len(parts) = 1 THEN parts[1]
    ELSE parts[1] \o <<0>> \o JoinNul(SubSeq(parts, 2, Len(parts)))

\* a guess that takes every byte string for binary data
GuessValueBytesBinary(v) ==
    IF v.py = "APEValue" THEN APEValue(v.value, v.kind, v.isbytes)
    ELSE IF v.py = "unicode" THEN APEValue(utf8(v.value), TEXT, TRUE)
    ELSE IF v.py = "list" THEN APEValue(JoinNul([i \in 1..Len(v.parts) |-> utf8(v.parts[i])]), TEXT, TRUE)
    ELSE APEValue(v.value, BINARY, TRUE)

\* the guess of __setitem__ for a value that is no APEValue: v.py is the
\* Python type of the value given
GuessValue(v) ==
    IF v.py = "APEValue" THEN APEValue(v.value, v.kind, v.isbytes)
    ELSE IF v.py = "unicode" THEN APEValue(utf8(v.value), TEXT, TRUE)
    ELSE IF v.py = "list" THEN APEValue(JoinNul([i \in 1..Len(v.parts) |-> utf8(v.parts[i])]), TEXT, TRUE)
    ELSE IF IsValidUtf8(v.value) THEN APEValue(v.value, TEXT, TRUE)
    ELSE APEValue(v.value, BINARY, TRUE)

\* the index of lowercased key lk in the dictionary d, 0 when absent
IndexOf(d, lk) == IF \E i \in 1..Len(d) : d[i][1] = lk
                  THEN CHOOSE i \in 1..Len(d) : d[i][1] = lk ELSE 0

\* a dictionary that stores every write as a new entry
DictSetAppend(d, lk, value) == Append(d, <<lk, value>>)

\* d[lk] = value: a key already present keeps its place
DictSet(d, lk, value) ==
    IF IndexOf(d, lk) = 0 THEN Append(d, <<lk, value>>)
    ELSE [d EXCEPT ![IndexOf(d, lk)] = <<lk, value>>]

\* del d[lk]
DictDel(d, lk) ==
    LET i == IndexOf(d, lk) IN SubSeq(d, 1, i - 1) \o SubSeq(d, i + 1, Len(d))

\* casemap[lk] = key
CaseSet(cm, lk, key) == {p \in cm : p[1] # lk} \cup {<<lk, key>>}

\* casemap.get(lk, lk)
CaseGet(cm, lk) == IF \E p \in cm : p[1] = lk THEN (CHOOSE p \in cm : p[1] = lk)[2] ELSE lk

\* a __setitem__ that stores under any key
setitem_unchecked(d, cm, key, v) ==
    [dict |-> DictSet(d, lower(key), GuessValue(v)),
     casemap |-> CaseSet(cm, lower(key), key), err |-> "ok"]

\* APEv2.__setitem__(key, value); a value APEValue(value, kind) is built
\* before the call, and the factory raises ValueError for a kind it does not know
setitem(d, cm, key, v) ==
    IF v.py = "APEValue" /\ v.kind \notin {TEXT, BINARY, EXTERNAL}
    THEN [dict |-> d, casemap |-> cm, err |-> "ValueError"]
    ELSE IF ~is_valid_apev2_key(key) THEN [dict |-> d, casemap |-> cm, err |-> "KeyError"]
    ELSE [dict |-> DictSet(d, lower(key), GuessValue(v)),
          casemap |-> CaseSet(cm, lower(key), key), err |-> "ok"]

\* APEv2.__delitem__(key)
delitem(d, cm, key) ==
    IF ~is_valid_apev2_key(key) \/ IndexOf(d, lower(key)) = 0
    THEN [dict |-> d, casemap |-> cm, err |-> "KeyError"]
    ELSE [dict |-> DictDel(d, lower(key)), casemap |-> cm, err |-> "ok"]

\* APEv2.__getitem__(key): the value, or None with a KeyError
getitem(d, key) ==
    IF ~is_valid_apev2_key(key) \/ IndexOf(d, lower(key)) = 0
    THEN [value |-> None, err |-> "KeyError"]
    ELSE [value |-> Some(d[IndexOf(d, lower(key))][2]), err |-> "ok"]

\* DictMixin.update(other): __setitem__ for each pair of other in turn; a
\* KeyError ends it and keeps the pairs already set
RECURSIVE update(_, _, _)
update(d, cm, other) ==
    IF Len(other) = 0 THEN [dict |-> d, casemap |-> cm, err |-> "ok"]
    ELSE LET set == setitem(d, cm, other[1][1], other[1][2])
         IN IF set.err # "ok" THEN set
            ELSE update(set.dict, set.casemap, SubSeq(other, 2, Len(other)))

\* APEv2.keys()
keys(d, cm) == [i \in 1..Len(d) |-> CaseGet(cm, d[i][1])]

\* DictMixin.items(): the pairs (key as last written, value)
items(d, cm) == [i \in 1..Len(d) |-> <<CaseGet(cm, d[i][1]), d[i][2]>>]

\* the items as a mapping, without their order
ItemSet(d, cm) == {items(d, cm)[i] : i \in 1..Len(d)}

----------------------------------------------------------------------------
(* APEv2.load *)

\* the position of the first NUL at or after pos, the length of the tag if none
NulAt(tag, pos) ==
    LET nuls == {p \in pos..(Len(tag) - 1) : tag[p + 1] = 0}
    IN IF nuls = {} THEN Len(tag)
       ELSE CHOOSE p \in nuls : \A q \in nuls : p <= q

\* a mask on bit 0 and bit 1 of the flags word
ItemKindLowBits(flagbytes) == flagbytes[1] % 4

\* kind = (flags & 6) >> 1: bits 1 and 2, which lie in the first byte of the
\* little-endian flags word
ItemKind(flagbytes) == (flagbytes[1] \div 2) % 4

\* __parse_tag(tag, count), continued at position pos with the dictionary d
RECURSIVE parse_tag(_, _, _, _, _)
parse_tag(tag, pos, count, d, cm) ==
    IF count = 0 THEN [dict |-> d, casemap |-> cm, err |-> "ok"]
    ELSE IF Len(ReadAt(tag, pos, 4)) < 4 \/ Len(ReadAt(tag, pos + 4, 4)) < 4
         THEN [dict |-> d, casemap |-> cm, err |-> "struct.error"]
    ELSE LET size == uint_le(ReadAt(tag, pos, 4))
             kind == ItemKind(ReadAt(tag, pos + 4, 4))
             nul == NulAt(tag, pos + 8)
             key == Slice(tag, pos + 8, nul)
             valuepos == Min(nul + 1, Len(tag))
             value == ReadAt(tag, valuepos, size)
             set == setitem(d, cm, key, [py |-> "APEValue", kind |-> kind, value |-> value,
                                         isbytes |-> TRUE, parts |-> <<>>])
         IN IF kind = 3 THEN [dict |-> d, casemap |-> cm, err |-> "APEBadItemError"]
            ELSE IF ~IsValidUtf8(key)
                 THEN [dict |-> d, casemap |-> cm, err |-> "UnicodeDecodeError"]
            ELSE IF set.err # "ok" THEN set
            ELSE parse_tag(tag, valuepos + Len(value), count - 1, set.dict, set.casemap)

\* APEv2.load(filename): the dictionary and the case map afterwards
load(f, d, cm) ==
    LET data == APEv2Data(f)
    IN IF data.err # "ok" THEN [dict |-> d, casemap |-> cm, err |-> data.err]
       ELSE IF data.tag = None \/ data.tag = Some(<<>>)
            THEN [dict |-> d, casemap |-> cm, err |-> "APENoHeaderError"]
       ELSE parse_tag(data.tag[1], 0, data.items[1], <<>>, {})

----------------------------------------------------------------------------
(* APEv2.save *)

\* an _internal that packs the kind without shifting it past the read-only bit
internal_kind_unshifted(key, v) ==
    IF ~v.isbytes THEN None
    ELSE Some(to_uint_le(Len(v.value)) \o to_uint_le(v.kind) \o utf8(key) \o <<0>> \o v.value)

\* _APEValue._internal(key): None when the value is no byte string (TypeError)
internal(key, v) ==
    IF ~v.isbytes THEN None
    ELSE Some(to_uint_le(Len(v.value)) \o to_uint_le(v.kind * 2) \o utf8(key) \o <<0>> \o v.value)

\* sorted(tags, key=len): a stable insertion sort
RECURSIVE InsertByLen(_, _)
InsertByLen(sorted, t) ==
    IF Len(sorted) = 0 THEN <<t>>
    ELSE IF Len(sorted[Len(sorted)]) <= Len(t) THEN Append(sorted, t)
    ELSE Append(InsertByLen(SubSeq(sorted, 1, Len(sorted) - 1), t), sorted[Len(sorted)])

\* a save that writes the items in the order of the dictionary
SortByLenKeepsOrder(tags) == tags

RECURSIVE SortByLen(_)
SortByLen(tags) ==
    IF Len(tags) = 0 THEN <<>>
    ELSE InsertByLen(SortByLen(SubSeq(tags, 1, Len(tags) - 1)), tags[Len(tags)])

\* bytearray().join(tags)
RECURSIVE Join(_)
Join(tags) == IF Len(tags) = 0 THEN <<>> ELSE tags[1] \o Join(SubSeq(tags, 2, Len(tags)))

\* a frame whose size field counts the items without the footer
PackHeaderItemsOnly(tagslen, num_tags, flagbytes) ==
    APETAGEX \o to_uint_le(Version) \o to_uint_le(tagslen) \o to_uint_le(num_tags)
        \o flagbytes \o Zeros(8)

\* struct_pack("<8s 4I 8x", b"APETAGEX", 2000, len(tags) + 32, num_tags, flags)
PackHeader(tagslen, num_tags, flagbytes) ==
    APETAGEX \o to_uint_le(Version) \o to_uint_le(tagslen + 32) \o to_uint_le(num_tags)
        \o flagbytes \o Zeros(8)

\* a save that leaves the tag it located in place and writes the new one after it
RemoveOldKeeps(f, data, mmapOk) == [file |-> f, err |-> "ok"]

\* a save that cuts the tag it located out of the file and keeps what follows
\* it, wherever the tag is
RemoveOldSpanOnly(f, data, mmapOk) ==
    IF data.start # None
    THEN [file |-> SubSeq(f, 1, data.start[1]) \o SubSeq(f, data.end[1] + 1, Len(f)),
          err |-> "ok"]
    ELSE [file |-> f, err |-> "ok"]

\* the file once save has removed the tag it located: a tag at the start is
\* cut out with delete_bytes, any other is cut off with everything after it
RemoveOld(f, data, mmapOk) ==
    IF data.is_at_start
    THEN delete_bytes(f, data.end[1] - data.start[1], data.start[1], DefaultBufferSize, mmapOk)
    ELSE IF data.start # None THEN [file |-> Truncate(f, data.start[1]), err |-> "ok"]
    ELSE [file |-> f, err |-> "ok"]

\* APEv2.save(filename): the file afterwards
save(f, d, cm, mmapOk) ==
    LET data == APEv2Data(f)
    IN IF data.err # "ok" THEN [file |-> f, err |-> data.err]
       ELSE LET removed == RemoveOld(f, data, mmapOk)
                its == items(d, cm)
                packed == [i \in 1..Len(its) |-> internal(its[i][1], its[i][2])]
            IN IF removed.err # "ok" THEN removed
               ELSE IF \E i \in 1..Len(packed) : packed[i] = None
                    THEN [file |-> removed.file, err |-> "TypeError"]
               ELSE LET tags == Join(SortByLen([i \in 1..Len(packed) |-> packed[i][1]]))
                        num_tags == Len(packed)
                    IN [file |-> removed.file \o PackHeader(Len(tags), num_tags, HeaderFlags)
                                     \o tags \o PackHeader(Len(tags), num_tags, FooterFlags),
                        err |-> "ok"]

----------------------------------------------------------------------------
(* APEv2.delete and the module's delete *)

\* a delete that removes the tag from its header, not from the start the scan
\* for PyMusepack headers found
delete_from_header(f, mmapOk) ==
    LET data == APEv2Data(f)
    IN IF data.err # "ok" THEN [file |-> f, err |-> data.err]
       ELSE IF data.start # None /\ data.size # None
            THEN delete_bytes(f, data.end[1] - data.header[1], data.header[1],
                              DefaultBufferSize, mmapOk)
       ELSE [file |-> f, err |-> "ok"]

\* APEv2.delete(filename): the file afterwards; the dictionary is cleared when
\* no exception is raised
delete(f, mmapOk) ==
    LET data == APEv2Data(f)
    IN IF data.err # "ok" THEN [file |-> f, err |-> data.err]
       ELSE IF data.start # None /\ data.size # None
            THEN delete_bytes(f, data.end[1] - data.start[1], data.start[1],
                              DefaultBufferSize, mmapOk)
       ELSE [file |-> f, err |-> "ok"]

\* delete(filename) of the module: APEv2(filename) loads the file into a new
\* object; APENoHeaderError is swallowed, any other exception is raised
module_delete(f, mmapOk) ==
    LET loaded == load(f, <<>>, {})
    IN IF loaded.err = "APENoHeaderError" THEN [file |-> f, err |-> "ok"]
       ELSE IF loaded.err # "ok" THEN [file |-> f, err |-> loaded.err]
       ELSE delete(f, mmapOk)

----------------------------------------------------------------------------
(* The record of an operation *)

\* before the first operation
NoOp == [op |-> "init", status |-> "ok", pre |-> <<>>, items |-> {},
         size |-> 0, offset |-> 0, path |-> "none", bufsize |-> 0]

----------------------------------------------------------------------------
(* The splice specification: insert_bytes and delete_bytes called on a file *)

\* [1, 2, ..., n]: every byte differs from every other and from the zero padding
Iota(n) == [i \in 1..n |-> i]
\* [1, 0, 1, 0, ...]: a file that holds zero bytes of its own
Alt(n) == [i \in 1..n |-> i % 2]

SpliceFiles == {Iota(n) : n \in 0..MaxLen} \cup {Alt(n) : n \in 0..MaxLen}

\* the strategies a call can take: the mmap block move, or the streaming
\* fallback with some BUFFER_SIZE
SplicePaths == {[mmapOk |-> TRUE, bufsize |-> 1]}
               \cup {[mmapOk |-> FALSE, bufsize |-> b] : b \in 1..MaxBuf}

\* insert_bytes and delete_bytes are functions of the file's bytes and of their
\* arguments alone and keep nothing between calls: a behaviour of the splice
\* specification is a start file and at most two calls, which `prev` and
\* `last` hold.
SpliceCallable == prev.op = "init"

SpliceInit ==
    /\ file \in SpliceFiles
    /\ dict = <<>>
    /\ casemap = {}
    /\ last = NoOp
    /\ prev = NoOp
    /\ steps = 0

\* a call insert_bytes(fobj, size, offset, BUFFER_SIZE) on the file
InsertBytes ==
    /\ SpliceCallable
    /\ \E size \in 0..MaxSize, offset \in 0..(Len(file) + 2), p \in SplicePaths :
       \E negReadAll \in (IF offset > Len(file) + 1 THEN BOOLEAN ELSE {TRUE}) :
         LET r == insert_bytes(file, size, offset, p.bufsize, p.mmapOk, negReadAll)
             fell == ~p.mmapOk \/ offset > Len(file)
         IN /\ file' = r.file
            /\ last' = [op |-> "insert_bytes", status |-> r.err, pre |-> file, items |-> {},
                        size |-> size, offset |-> offset,
                        path |-> IF r.err = "AssertionError" THEN "none"
                                 ELSE IF fell THEN "fallback" ELSE "mmap",
                        bufsize |-> IF r.err # "AssertionError" /\ fell THEN p.bufsize ELSE 0]
    /\ prev' = last
    /\ steps' = steps + 1
    /\ UNCHANGED <<dict, casemap>>

\* a call delete_bytes(fobj, size, offset, BUFFER_SIZE) on the file
DeleteBytes ==
    /\ SpliceCallable
    /\ \E size \in 0..MaxSize, offset \in 0..(Len(file) + 1), p \in SplicePaths :
         LET r == delete_bytes(file, size, offset, p.bufsize, p.mmapOk)
             moves == r.err = "ok" /\ Len(file) - offset - size > 0
         IN /\ file' = r.file
            /\ last' = [op |-> "delete_bytes", status |-> r.err, pre |-> file, items |-> {},
                        size |-> size, offset |-> offset,
                        path |-> IF ~moves THEN "none"
                                 ELSE IF p.mmapOk THEN "mmap" ELSE "fallback",
                        bufsize |-> IF moves /\ ~p.mmapOk THEN p.bufsize ELSE 0]
    /\ prev' = last
    /\ steps' = steps + 1
    /\ UNCHANGED <<dict, casemap>>

SpliceNext == InsertBytes \/ DeleteBytes

SpliceSpec == SpliceInit /\ [][SpliceNext]_vars

----------------------------------------------------------------------------
(* The tag specification: one APEv2 object and the file it loads and saves *)

\* audio data: n bytes that hold no cookie and no marker
Audio(n) == [i \in 1..n |-> 1 + (i % 5)]

\* the item "Ab" = "x" (text), and a second one, "Cde" = "yz" (external)
ItemAb == <<1, 0, 0, 0>> \o <<0, 0, 0, 0>> \o <<65, 98>> \o <<0>> \o <<120>>
ItemCde == <<2, 0, 0, 0>> \o <<4, 0, 0, 0>> \o <<67, 100, 101>> \o <<0>> \o <<121, 122>>

\* a header (topflag 160) or footer (topflag 128) of version 2000 that
\* declares `size` bytes of items and footer, and `count` items
Frame(size, count, topflag) ==
    APETAGEX \o <<208, 7, 0, 0>> \o <<size, 0, 0, 0>> \o <<count, 0, 0, 0>>
        \o <<0, 0, 0, topflag>> \o Zeros(8)

\* a well-formed tag: header, items, footer
WholeTag(itembytes, count) ==
    Frame(Len(itembytes) + 32, count, 160) \o itembytes \o Frame(Len(itembytes) + 32, count, 128)

\* an ID3v1 trailer
ID3v1 == TAG \o [i \in 1..125 |-> 32]

\* the files the object is pointed at
TagFiles == {
    <<>>,                                                       \* an empty file
    Audio(40),                                                  \* no tag
    Audio(40) \o WholeTag(ItemAb, 1),                           \* a tag at the end
    Audio(40) \o WholeTag(ItemAb, 1) \o ID3v1,                  \* a tag before an ID3v1 trailer
    WholeTag(ItemAb, 1) \o Audio(40),                           \* a tag at the start
    Audio(40) \o SubSeq(Frame(44, 1, 160), 1, 24) \o WholeTag(ItemAb, 1),
                                                                \* a header left by PyMusepack
    Audio(40) \o SubSeq(Frame(44, 1, 160), 1, 24) \o SubSeq(Frame(44, 1, 160), 1, 24)
        \o WholeTag(ItemAb, 1),                                 \* two headers left by PyMusepack
    Audio(16) \o APETAGEX \o Audio(16),                         \* no tag; audio that holds the cookie
    WholeTag(ItemCde, 1) \o Audio(40) \o WholeTag(ItemAb, 1),   \* a tag at the start and one at the end
    Frame(200, 1, 160) \o Audio(40)                             \* a header whose size runs past the end
}

\* the keys given to the object: "Ab" and "Cde"; update writes "AB" too, and
\* the key specification writes keys of every sort
TagKeys == {<<65, 98>>, <<67, 100, 101>>}

\* the values given to the object: APEValue(b"x", TEXT), APEValue(b"\xff\x00", BINARY),
\* APEValue(b"yz", EXTERNAL), and APEValue(u"uri", EXTERNAL), whose value is text
TagValues == {
    [py |-> "APEValue", kind |-> TEXT, value |-> <<120>>, isbytes |-> TRUE, parts |-> <<>>],
    [py |-> "APEValue", kind |-> BINARY, value |-> <<255, 0>>, isbytes |-> TRUE, parts |-> <<>>],
    [py |-> "APEValue", kind |-> EXTERNAL, value |-> <<121, 122>>, isbytes |-> TRUE, parts |-> <<>>],
    [py |-> "APEValue", kind |-> EXTERNAL, value |-> <<117, 114, 105>>, isbytes |-> FALSE,
     parts |-> <<>>]
}

\* APEValue(b"x", TEXT), APEValue(b"\xff\x00", BINARY), APEValue(b"yz", EXTERNAL)
ValueX == [py |-> "APEValue", kind |-> TEXT, value |-> <<120>>, isbytes |-> TRUE, parts |-> <<>>]
ValueBin == [py |-> "APEValue", kind |-> BINARY, value |-> <<255, 0>>, isbytes |-> TRUE,
             parts |-> <<>>]
ValueExt == [py |-> "APEValue", kind |-> EXTERNAL, value |-> <<121, 122>>, isbytes |-> TRUE,
             parts |-> <<>>]

\* the dictionaries given to update: {"Cde": binary, "Ab": text}, and
\* {"Ab": external, "AB": text}, whose two keys differ in case only
TagUpdates == {
    << <<(<<67, 100, 101>>), ValueBin>>, <<(<<65, 98>>), ValueX>> >>,
    << <<(<<65, 98>>), ValueExt>>, <<(<<65, 66>>), ValueX>> >>
}

Init ==
    /\ file \in TagFiles
    /\ dict = <<>>
    /\ casemap = {}
    /\ last = NoOp
    /\ prev = NoOp
    /\ steps = 0

\* the record of an operation of the object
TagOp(op, status) ==
    [op |-> op, status |-> status, pre |-> file, items |-> ItemSet(dict, casemap),
     size |-> 0, offset |-> 0, path |-> "none", bufsize |-> 0]

\* tag[key] = value
SetItem ==
    /\ steps < MaxSteps
    /\ \E key \in TagKeys, v \in TagValues :
         LET r == setitem(dict, casemap, key, v)
         IN /\ dict' = r.dict
            /\ casemap' = r.casemap
            /\ last' = TagOp("setitem", r.err)
    /\ prev' = last
    /\ steps' = steps + 1
    /\ UNCHANGED file

\* tag.update(other)
Update ==
    /\ steps < MaxSteps
    /\ \E other \in TagUpdates :
         LET r == update(dict, casemap, other)
         IN /\ dict' = r.dict
            /\ casemap' = r.casemap
            /\ last' = TagOp("update", r.err)
    /\ prev' = last
    /\ steps' = steps + 1
    /\ UNCHANGED file

\* tag.save()
Save ==
    /\ steps < MaxSteps
    /\ \E mmapOk \in BOOLEAN :
         LET r == save(file, dict, casemap, mmapOk)
         IN /\ file' = r.file
            /\ last' = TagOp("save", r.err)
    /\ prev' = last
    /\ steps' = steps + 1
    /\ UNCHANGED <<dict, casemap>>

\* tag.load(filename)
Load ==
    /\ steps < MaxSteps
    /\ LET r == load(file, dict, casemap)
       IN /\ dict' = r.dict
          /\ casemap' = r.casemap
          /\ last' = TagOp("load", r.err)
    /\ prev' = last
    /\ steps' = steps + 1
    /\ UNCHANGED file

\* tag.delete(): the dictionary is cleared unless an exception is raised
Delete ==
    /\ steps < MaxSteps
    /\ \E mmapOk \in BOOLEAN :
         LET r == delete(file, mmapOk)
         IN /\ file' = r.file
            /\ dict' = IF r.err = "ok" THEN <<>> ELSE dict
            /\ last' = TagOp("delete", r.err)
    /\ prev' = last
    /\ steps' = steps + 1
    /\ UNCHANGED casemap

\* mutagen.apev2.delete(filename)
ModuleDelete ==
    /\ steps < MaxSteps
    /\ \E mmapOk \in BOOLEAN :
         LET r == module_delete(file, mmapOk)
         IN /\ file' = r.file
            /\ last' = TagOp("module_delete", r.err)
    /\ prev' = last
    /\ steps' = steps + 1
    /\ UNCHANGED <<dict, casemap>>

Next == SetItem \/ Update \/ Save \/ Load \/ Delete \/ ModuleDelete

Spec == Init /\ [][Next]_vars

----------------------------------------------------------------------------
(* The locator specification: the object loads, saves and deletes on files of
   every layout that the probes of __find_metadata tell apart *)

\* b"LYRICSBEGIN", the 11 bytes of the shortest Lyrics3v2 block
LyricsBegin == <<76, 89, 82, 73, 67, 83, 66, 69, 71, 73, 78>>
\* a Lyrics3v2 block with the six bytes given as its size field, and the
\* ID3v1 trailer that follows it
LyricsTrailer(sizefield) == LyricsBegin \o sizefield \o LYRICS200 \o ID3v1
\* b"000011", b"abcdef", b"009999", b"000012"
SizeRight == <<48, 48, 48, 48, 49, 49>>
SizeNoNumber == <<97, 98, 99, 100, 101, 102>>
SizeTooFar == <<48, 48, 57, 57, 57, 57>>
SizeOffByOne == <<48, 48, 48, 48, 49, 50>>
\* a tag of the item "Ab" without a header: items and a footer whose flags
\* lack the has-header bit
FooterOnlyTag == ItemAb \o Frame(Len(ItemAb) + 32, 1, 0)

\* keys of 255 and of 256 characters: n letters "k"
LongKey(n) == [i \in 1..n |-> 107]
\* a well-formed tag of one text item with the key and the value given
OneItemTag(key, value) ==
    LET item == to_uint_le(Len(value)) \o <<0, 0, 0, 0>> \o key \o <<0>> \o value
    IN PackHeader(Len(item), 1, HeaderFlags) \o item \o PackHeader(Len(item), 1, FooterFlags)

LocateFiles == TagFiles \cup {
    Audio(40) \o OneItemTag(LongKey(255), <<120>>),              \* the longest key allowed
    Audio(40) \o OneItemTag(LongKey(256), <<120, 121>>),         \* a key one byte longer
    Audio(10),                                                  \* shorter than a footer
    WholeTag(ItemAb, 1),                                        \* the tag is the whole file
    ID3v1,                                                      \* an ID3v1 trailer alone
    Audio(40) \o ID3v1,                                         \* audio and an ID3v1 trailer
    Audio(40) \o WholeTag(ItemAb, 1) \o LyricsTrailer(SizeRight),
                                                  \* a tag before Lyrics3v2 and ID3v1
    WholeTag(ItemAb, 1) \o Audio(40) \o LyricsTrailer(SizeNoNumber),
                                                  \* a size field that is no number
    WholeTag(ItemAb, 1) \o LyricsTrailer(SizeTooFar),
                                                  \* a size that points before the file
    Audio(40) \o WholeTag(ItemAb, 1) \o LyricsTrailer(SizeOffByOne),
                                                  \* a size that points past the footer
    WholeTag(ItemCde, 1) \o Audio(40) \o WholeTag(ItemAb, 1) \o ID3v1,
                                                  \* a tag at the start, one before ID3v1
    Audio(40) \o FooterOnlyTag,                                 \* a tag without a header
    Frame(Len(ItemAb) + 32, 1, 160) \o ItemAb \o Audio(40)      \* a tag without a footer
}

LocateInit ==
    /\ file \in LocateFiles
    /\ dict = <<>>
    /\ casemap = {}
    /\ last = NoOp
    /\ prev = NoOp
    /\ steps = 0

LocateNext == Load \/ Save \/ Delete \/ ModuleDelete

LocateSpec == LocateInit /\ [][LocateNext]_vars

----------------------------------------------------------------------------
(* The step specification: insert_bytes, delete_bytes and the scan of
   __fix_brokenness run one statement block at a time.  `last` is the frame
   of the running call: its arguments, its local variables, the block it is
   at (pc) and the calls it has made on the file object so far. *)

\* a call made on the file object, on mmap or on the lock: n is the number of
\* bytes of the buffer a read returned or a write was given
Ev(call, n) == [call |-> call, n |-> n]

\* no call is running
Idle == [op |-> "init", status |-> "ok", pc |-> "idle", pre |-> <<>>, size |-> 0,
         offset |-> 0, bufsize |-> 0, filesize |-> 0, movesize |-> 0, padsize |-> 0,
         pos |-> 0, buf |-> <<>>, locked |-> FALSE, unlock |-> "none", start |-> 0,
         calls |-> <<>>]

\* the files the locator scans: those of the locator specification that hold a tag
ScanFiles == {f \in LocateFiles : find_metadata(f).header # None \/ find_metadata(f).footer # None}

StepInit ==
    /\ file \in SpliceFiles
    /\ dict = <<>>
    /\ casemap = {}
    /\ last = Idle
    /\ prev = NoOp
    /\ steps = 0

\* insert_bytes up to the try: the assertions, the zero bytes written at the
\* end of the file, the flush
InsertCall ==
    /\ last.pc = "idle"
    /\ \E size \in 0..MaxSize, offset \in 0..(Len(file) + 2), bufsize \in 1..MaxBuf :
         LET frame == [Idle EXCEPT !.op = "insert_bytes", !.pre = file, !.size = size,
                                   !.offset = offset, !.bufsize = bufsize]
         IN IF ~(0 < size) \/ ~(0 <= offset)
            THEN /\ last' = [frame EXCEPT !.status = "AssertionError", !.pc = "done"]
                 /\ UNCHANGED file
            ELSE /\ file' = WriteAt(file, Len(file), Zeros(size))
                 /\ last' = [frame EXCEPT !.pc = "mmap", !.filesize = Len(file),
                                          !.movesize = Len(file) - offset,
                                          !.calls = <<Ev("write", size), Ev("flush", 0)>>]
    /\ UNCHANGED <<dict, casemap, prev, steps>>

\* the inner try of insert_bytes: the mmap move, or, when mmap cannot be
\* imported, cannot map the file or refuses the move, the start of the except
\* branch: lock, truncate
InsertMmapStep ==
    /\ last.op = "insert_bytes" /\ last.pc = "mmap"
    /\ \E mmapOk \in BOOLEAN :
         IF mmapOk /\ MoveInRange(last.filesize + last.size, last.offset + last.size,
                                  last.offset, last.movesize)
         THEN /\ file' = MmapMove(file, last.offset + last.size, last.offset, last.movesize)
              /\ last' = [last EXCEPT !.pc = "finally",
                                      !.calls = @ \o <<Ev("mmap", 0), Ev("move", 0)>>]
         ELSE \E lockOk \in BOOLEAN :
              /\ file' = Truncate(file, last.filesize)
              /\ last' = [last EXCEPT !.pc = "pad", !.locked = lockOk, !.padsize = last.size,
                                      !.calls = @ \o <<Ev("mmap", 0), Ev("lock", 0),
                                                       Ev("truncate", 0)>>]
    /\ UNCHANGED <<dict, casemap, prev, steps>>

\* a padding loop that forgets to count down what it wrote
InsertPadStepNoCount ==
    /\ last.op = "insert_bytes" /\ last.pc = "pad"
    /\ IF last.padsize # 0
       THEN LET addsize == Min(last.bufsize, last.padsize)
            IN /\ file' = file
               /\ last' = [last EXCEPT !.calls = <<Ev("write", addsize)>>]
       ELSE /\ last' = [last EXCEPT !.pc = "move", !.pos = last.filesize]
            /\ UNCHANGED file
    /\ UNCHANGED <<dict, casemap, prev, steps>>

\* the padding loop of insert_bytes: one test of `while padsize` and, if it
\* holds, one turn of the loop
InsertPadStep ==
    /\ last.op = "insert_bytes" /\ last.pc = "pad"
    /\ IF last.padsize # 0
       THEN LET addsize == Min(last.bufsize, last.padsize)
            IN /\ file' = WriteAt(file, Len(file), Zeros(addsize))
               /\ last' = [last EXCEPT !.padsize = @ - addsize,
                                       !.calls = @ \o <<Ev("write", addsize)>>]
       ELSE /\ last' = [last EXCEPT !.pc = "move", !.pos = last.filesize]
            /\ UNCHANGED file
    /\ UNCHANGED <<dict, casemap, prev, steps>>

\* the move loop of insert_bytes: one test of `while movesize` and, if it
\* holds, one turn of the loop; when it fails, the flush that ends the except
\* branch.  read(n) for n < -1 raises ValueError on Python 3 and reads to the
\* end of the file on Python 2.
InsertMoveStep ==
    /\ last.op = "insert_bytes" /\ last.pc = "move"
    /\ IF last.movesize # 0
       THEN LET thismove == Min(last.bufsize, last.movesize)
                nextpos == last.pos - thismove
                data == IF thismove >= 0 THEN ReadAt(file, nextpos, thismove)
                        ELSE ReadAll(file, nextpos)
                afterread == IF thismove >= 0 THEN nextpos + Len(data)
                             ELSE Max(nextpos, Len(file))
                writepos == afterread - thismove + last.size
            IN \E negReadAll \in (IF thismove < -1 THEN BOOLEAN ELSE {TRUE}) :
               IF thismove < -1 /\ ~negReadAll
               THEN /\ last' = [last EXCEPT !.status = "ValueError", !.pc = "finally"]
                    /\ UNCHANGED file
               ELSE /\ file' = WriteAt(file, writepos, data)
                    /\ last' = [last EXCEPT !.pos = nextpos, !.movesize = @ - thismove,
                                            !.calls = @ \o <<Ev("read", Len(data)),
                                                             Ev("write", Len(data))>>]
       ELSE /\ last' = [last EXCEPT !.pc = "finally", !.calls = @ \o <<Ev("flush", 0)>>]
            /\ UNCHANGED file
    /\ UNCHANGED <<dict, casemap, prev, steps>>

\* delete_bytes up to the inner try: the assertions and, when there is a tail
\* to move, the flush
DeleteCall ==
    /\ last.pc = "idle"
    /\ \E size \in 0..MaxSize, offset \in 0..(Len(file) + 1), bufsize \in 1..MaxBuf :
         LET filesize == Len(file)
             movesize == filesize - offset - size
             frame == [Idle EXCEPT !.op = "delete_bytes", !.pre = file, !.size = size,
                                   !.offset = offset, !.bufsize = bufsize,
                                   !.filesize = filesize, !.movesize = movesize]
         IN last' = IF ~(0 < size) \/ ~(0 <= offset) \/ ~(0 <= movesize)
                    THEN [frame EXCEPT !.status = "AssertionError", !.pc = "done"]
                    ELSE IF movesize > 0
                    THEN [frame EXCEPT !.pc = "mmap", !.calls = <<Ev("flush", 0)>>]
                    ELSE [frame EXCEPT !.pc = "truncate"]
    /\ UNCHANGED <<file, dict, casemap, prev, steps>>

\* the inner try of delete_bytes: the mmap move, or the start of the except
\* branch: lock, and the first read of the loop
DeleteMmapStep ==
    /\ last.op = "delete_bytes" /\ last.pc = "mmap"
    /\ \E mmapOk \in BOOLEAN :
         IF mmapOk
         THEN /\ file' = MmapMove(file, last.offset, last.offset + last.size, last.movesize)
              /\ last' = [last EXCEPT !.pc = "truncate",
                                      !.calls = @ \o <<Ev("mmap", 0), Ev("move", 0)>>]
         ELSE \E lockOk \in BOOLEAN :
              LET buf == ReadAt(file, last.offset + last.size, last.bufsize)
              IN /\ last' = [last EXCEPT !.pc = "move", !.locked = lockOk, !.buf = buf,
                                         !.pos = last.offset,
                                         !.calls = @ \o <<Ev("mmap", 0), Ev("lock", 0),
                                                          Ev("read", Len(buf))>>]
                 /\ UNCHANGED file
    /\ UNCHANGED <<dict, casemap, prev, steps>>

\* the move loop of delete_bytes: one test of `while buf` and, if it holds,
\* one turn of the loop (pos is the local variable offset)
DeleteMoveStep ==
    /\ last.op = "delete_bytes" /\ last.pc = "move"
    /\ IF Len(last.buf) # 0
       THEN LET written == WriteAt(file, last.pos, last.buf)
                offset == last.pos + Len(last.buf)
                buf == ReadAt(written, offset + last.size, last.bufsize)
            IN /\ file' = written
               /\ last' = [last EXCEPT !.pos = offset, !.buf = buf,
                                       !.calls = @ \o <<Ev("write", Len(last.buf)),
                                                        Ev("read", Len(buf))>>]
       ELSE /\ last' = [last EXCEPT !.pc = "truncate"]
            /\ UNCHANGED file
    /\ UNCHANGED <<dict, casemap, prev, steps>>

\* the end of the outer try of delete_bytes: truncate and flush
DeleteTruncate ==
    /\ last.op = "delete_bytes" /\ last.pc = "truncate"
    /\ file' = Truncate(file, last.filesize - last.size)
    /\ last' = [last EXCEPT !.pc = "finally",
                            !.calls = @ \o <<Ev("truncate", 0), Ev("flush", 0)>>]
    /\ UNCHANGED <<dict, casemap, prev, steps>>

\* a finally block that unlocks whatever lock() returned
FinallyAlwaysUnlock ==
    /\ last.op \in {"insert_bytes", "delete_bytes"} /\ last.pc = "finally"
    /\ \E unlockOk \in BOOLEAN :
         last' = [last EXCEPT !.pc = "done",
                              !.unlock = IF unlockOk THEN "ok" ELSE "failed",
                              !.status = IF unlockOk THEN @ ELSE "IOError",
                              !.calls = @ \o <<Ev("unlock", 0)>>]
    /\ UNCHANGED <<file, dict, casemap, prev, steps>>

\* the finally block of both functions: unlock if lock() returned True; the
\* exception of a failing unlock leaves the function in place of any other
Finally ==
    /\ last.op \in {"insert_bytes", "delete_bytes"} /\ last.pc = "finally"
    /\ IF last.locked
       THEN \E unlockOk \in BOOLEAN :
              last' = [last EXCEPT !.pc = "done",
                                   !.unlock = IF unlockOk THEN "ok" ELSE "failed",
                                   !.status = IF unlockOk THEN @ ELSE "IOError",
                                   !.calls = @ \o <<Ev("unlock", 0)>>]
       ELSE last' = [last EXCEPT !.pc = "done"]
    /\ UNCHANGED <<file, dict, casemap, prev, steps>>

\* _APEv2Data(fileobj) on a file that holds a tag, up to the loop of
\* __fix_brokenness: start is the header, and the seek to it fails if it is
\* negative
ScanCall ==
    /\ last.pc = "idle"
    /\ \E f \in ScanFiles :
         LET m == fill_missing(f, find_metadata(f))
             frame == [Idle EXCEPT !.op = "fix_brokenness", !.pre = f, !.start = m.header[1]]
         IN /\ file' = f
            /\ last' = IF m.header[1] < 0
                       THEN [frame EXCEPT !.status = "IOError", !.pc = "done"]
                       ELSE [frame EXCEPT !.pc = "scan"]
    /\ UNCHANGED <<dict, casemap, prev, steps>>

\* a scan that reads the cookie at start - 24 and leaves start where it is
ScanStepInPlace ==
    /\ last.op = "fix_brokenness" /\ last.pc = "scan"
    /\ last' = IF last.start > 0 /\ last.start - BrokenStep >= 0
                  /\ ReadAt(file, last.start - BrokenStep, 8) = APETAGEX
               THEN [last EXCEPT !.calls = <<Ev("read", 8)>>]
               ELSE [last EXCEPT !.pc = "done"]
    /\ UNCHANGED <<file, dict, casemap, prev, steps>>

\* the loop of __fix_brokenness: one test of `while start > 0` and, if it
\* holds, one turn: seek 24 bytes back (IOError: break), read the cookie
\* there (start moves to it) or something else (break)
ScanStep ==
    /\ last.op = "fix_brokenness" /\ last.pc = "scan"
    /\ last' = IF last.start > 0 /\ last.start - BrokenStep >= 0
                  /\ ReadAt(file, last.start - BrokenStep, 8) = APETAGEX
               THEN [last EXCEPT !.start = @ - BrokenStep,
                                 !.calls = @ \o <<Ev("read", 8)>>]
               ELSE [last EXCEPT !.pc = "done"]
    /\ UNCHANGED <<file, dict, casemap, prev, steps>>

StepNext ==
    \/ InsertCall \/ InsertMmapStep \/ InsertPadStep \/ InsertMoveStep
    \/ DeleteCall \/ DeleteMmapStep \/ DeleteMoveStep \/ DeleteTruncate
    \/ Finally
    \/ ScanCall \/ ScanStep

StepSpec == StepInit /\ [][StepNext]_vars

\* a call that has started takes its next step: the code runs one statement
\* after the other and waits for nothing but the file system
StepFairSpec == StepSpec /\ WF_vars(StepNext)

----------------------------------------------------------------------------
(* Properties of insert_bytes and delete_bytes, checked under SpliceSpec *)

\* the call r is insert_bytes with a size and an offset in range
InRangeInsert(r) == r.op = "insert_bytes" /\ r.size > 0 /\ r.offset <= Len(r.pre)
\* the call r is delete_bytes with a size and an offset in range
InRangeDelete(r) == r.op = "delete_bytes" /\ r.size > 0 /\ r.offset + r.size <= Len(r.pre)
\* the last call undoes the one before: delete_bytes with the size and offset
\* of an in-range insert_bytes
UndoesInsert ==
    /\ InRangeInsert(prev)
    /\ last.op = "delete_bytes"
    /\ last.size = prev.size
    /\ last.offset = prev.offset

\* C1: insert_bytes(F, s, o) followed by delete_bytes(result, s, o), for s > 0
\* and 0 <= o <= len(F), gives back exactly F, whichever path each call takes.
C1_InsertThenDelete ==
    UndoesInsert => (prev.status = "ok" /\ last.status = "ok" /\ file = prev.pre)

\* C1 happens: both calls ran the streaming fallback, the insert in several blocks
C1_Witness ==
    /\ UndoesInsert
    /\ prev.path = "fallback" /\ last.path = "fallback"
    /\ prev.offset > 0
    /\ Len(prev.pre) - prev.offset > prev.bufsize
    /\ file = prev.pre

\* C2: insert_bytes with size > 0 and 0 <= offset <= len(f) grows the file by
\* size bytes, keeps the bytes before offset and puts the byte that was at
\* position i >= offset at position i + size.
C2_InsertShifts ==
    InRangeInsert(last) =>
        /\ last.status = "ok"
        /\ Len(file) = Len(last.pre) + last.size
        /\ \A i \in 1..last.offset : file[i] = last.pre[i]
        /\ \A i \in (last.offset + 1)..Len(last.pre) : file[i + last.size] = last.pre[i]

\* C2 happens: an insert in the middle of a file
C2_Witness ==
    /\ InRangeInsert(last)
    /\ last.offset > 0 /\ last.offset < Len(last.pre)
    /\ Len(file) = Len(last.pre) + last.size

\* C3: delete_bytes with size > 0 and offset + size <= len(f) shrinks the file
\* by size bytes, keeps the bytes before offset and puts the byte that was at
\* position i >= offset + size at position i - size.
C3_DeleteShifts ==
    InRangeDelete(last) =>
        /\ last.status = "ok"
        /\ Len(file) = Len(last.pre) - last.size
        /\ \A i \in 1..last.offset : file[i] = last.pre[i]
        /\ \A i \in (last.offset + last.size + 1)..Len(last.pre) :
               file[i - last.size] = last.pre[i]

\* C3 happens: a delete in the middle of a file, with a tail to move down
C3_Witness ==
    /\ InRangeDelete(last)
    /\ last.offset > 0 /\ last.offset + last.size < Len(last.pre)
    /\ Len(file) = Len(last.pre) - last.size

\* C8 as claimed: insert_bytes with size = 0 or with offset beyond the end of
\* the file fails and leaves the file as it was.
C8_InsertRejects ==
    (last.op = "insert_bytes" /\ (last.size = 0 \/ last.offset > Len(last.pre)))
        => (last.status # "ok" /\ file = last.pre)

\* C9: delete_bytes with size = 0 or offset + size beyond the end of the file
\* raises (the assertion) before it moves or truncates anything: the file is
\* as it was.
C9_DeleteRejects ==
    (last.op = "delete_bytes" /\ (last.size = 0 \/ last.offset + last.size > Len(last.pre)))
        => (last.status = "AssertionError" /\ file = last.pre)

\* C9 happens: a range that runs past the end of a file that holds bytes
C9_Witness ==
    /\ last.op = "delete_bytes"
    /\ last.size > 0 /\ last.offset + last.size > Len(last.pre) /\ last.offset < Len(last.pre)
    /\ last.status = "AssertionError"

\* C10: for a size and an offset in range, the file after the call is the one
\* the mmap block move leaves and the one the streaming fallback leaves, for
\* every BUFFER_SIZE >= 1.
C10_SameOnBothPaths ==
    /\ InRangeInsert(last) =>
         \A mmapOk \in BOOLEAN, b \in 1..MaxBuf :
             insert_bytes(last.pre, last.size, last.offset, b, mmapOk, TRUE)
                 = [file |-> file, err |-> "ok"]
    /\ InRangeDelete(last) =>
         \A mmapOk \in BOOLEAN, b \in 1..MaxBuf :
             delete_bytes(last.pre, last.size, last.offset, b, mmapOk)
                 = [file |-> file, err |-> "ok"]

\* C10 happens: a fallback insert whose move and whose padding take several blocks
C10_Witness ==
    /\ InRangeInsert(last)
    /\ last.path = "fallback"
    /\ last.bufsize < last.size
    /\ last.bufsize < Len(last.pre) - last.offset
    /\ file = InsertMmap(last.pre, last.size, last.offset).file

----------------------------------------------------------------------------
(* Properties of APEv2.save, load and delete, checked under Spec *)

\* the last two operations are a save that succeeded and then a load
LoadAfterSave == last.op = "load" /\ prev.op = "save" /\ prev.status = "ok"

\* C4: saving a model (any set of keys with text, binary or external values,
\* the empty one included) and then loading the file gives the model back:
\* the same keys in the same case, each with the same kind and payload.
C4_SaveThenLoad ==
    LoadAfterSave => (last.status = "ok" /\ ItemSet(dict, casemap) = prev.items)

\* C4 happens: a model of two items of different kinds was saved and loaded
C4_Witness ==
    /\ LoadAfterSave
    /\ Len(dict) = 2
    /\ dict[1][2].kind # dict[2][2].kind
    /\ ItemSet(dict, casemap) = prev.items

\* the last two operations are saves that succeeded: the model is the same for both
SavedTwice == last.op = "save" /\ last.status = "ok" /\ prev.op = "save" /\ prev.status = "ok"

\* the header of the tag that the first of the two saves wrote
FirstHeader == APEv2Data(last.pre).header[1]

\* the cookie lies 24 bytes before that header, in the bytes the first save left alone
CookieBeforeHeader ==
    FirstHeader >= BrokenStep /\ ReadAt(last.pre, FirstHeader - BrokenStep, 8) = APETAGEX

\* C5 as claimed: a second save with the same model leaves the file as the
\* first save left it, whatever the bytes outside the tag are.
C5_SecondSaveSameFile == SavedTwice => file = last.pre

\* C5, amended: the second save writes the same tag bytes as the first, and
\* leaves the whole file as the first save left it unless the cookie lies 24
\* bytes before the header the first save wrote.
C5_SecondSaveSameTag ==
    SavedTwice =>
        LET taglen == Len(last.pre) - FirstHeader
        IN /\ Slice(file, Len(file) - taglen, Len(file))
                  = Slice(last.pre, FirstHeader, Len(last.pre))
           /\ ~CookieBeforeHeader => file = last.pre

\* C5 happens: the first save replaced a tag that another writer left, the
\* second one rewrote the tag of the first
C5_Witness ==
    /\ SavedTwice
    /\ ~CookieBeforeHeader
    /\ Len(dict) > 0
    /\ prev.pre # last.pre
    /\ APEv2Data(prev.pre).start # None
    /\ file = last.pre

\* C6 as claimed: a save that raises leaves the file as it was before the call.
C6_FailedSaveKeepsFile == (last.op = "save" /\ last.status # "ok") => file = last.pre

\* the tag located in the file the last operation started from
Located(r) == APEv2Data(r.pre)
\* a tag is located there
HasTag(r) == Located(r).err = "ok" /\ Located(r).start # None
\* the located span [start, end) is not empty and lies within the file
SpanInFile(r) ==
    /\ HasTag(r)
    /\ Located(r).start[1] < Located(r).end[1]
    /\ Located(r).end[1] <= Len(r.pre)
\* the file without the located span
WithoutSpan(r) ==
    Slice(r.pre, 0, Located(r).start[1]) \o Slice(r.pre, Located(r).end[1], Len(r.pre))
\* the cookie lies somewhere in f
HoldsCookie(f) == \E p \in 0..(Len(f) - 8) : ReadAt(f, p, 8) = APETAGEX

\* the last operation was the module's delete on a file where no tag is located
ModuleDeleteNoTag ==
    last.op = "module_delete" /\ Located(last).err = "ok" /\ Located(last).start = None

\* C7 as claimed: delete removes the located span and nothing else, a load
\* after it finds no tag, and the module's delete leaves a file where no tag
\* is located as it is and raises nothing.
C7_DeleteLeavesNoTag ==
    /\ (last.op = "delete" /\ HasTag(last))
           => (last.status = "ok" /\ file = WithoutSpan(last))
    /\ (last.op = "load" /\ prev.op = "delete" /\ HasTag(prev))
           => last.status = "APENoHeaderError"
    /\ ModuleDeleteNoTag => (last.status = "ok" /\ file = last.pre)

\* C7, amended: delete removes the located span and nothing else when the
\* span is not empty and lies within the file; a load after it finds no tag
\* when the bytes that are left hold no cookie; the module's delete leaves a
\* file where no tag is located as it is and raises nothing.
C7_DeleteRemovesSpan ==
    /\ (last.op = "delete" /\ SpanInFile(last))
           => (last.status = "ok" /\ file = WithoutSpan(last))
    /\ (last.op = "load" /\ prev.op = "delete" /\ SpanInFile(prev) /\ ~HoldsCookie(last.pre))
           => last.status = "APENoHeaderError"
    /\ ModuleDeleteNoTag => (last.status = "ok" /\ file = last.pre)

\* C7 happens: delete removed a tag together with the header PyMusepack left
\* before it, and the load after it found no tag
C7_Witness ==
    /\ last.op = "load" /\ prev.op = "delete" /\ SpanInFile(prev)
    /\ Located(prev).start[1] < Located(prev).header[1]
    /\ file = WithoutSpan(prev)
    /\ last.status = "APENoHeaderError"

----------------------------------------------------------------------------
(* The key specification: items of one APEv2 object written, read and deleted
   under keys of every sort, and loaded from files that hold such items *)

\* "key", "Key", "KEY" in the shortest form a key can take: "ab", "Ab", "AB"
KeyLower == <<97, 98>>
KeyMixed == <<65, 98>>
KeyUpper == <<65, 66>>
\* keys that is_valid_apev2_key refuses: one character, a reserved word, a
\* character after "~", a character that is not ASCII
BadKeys == {<<97>>, TAG, <<65, 127>>, <<65, 233>>}
\* the keys read and deleted
KeyInputs == {KeyLower, KeyMixed, KeyUpper} \cup BadKeys
\* the keys written: those, the longest key allowed and a key one character longer
KeysWritten == KeyInputs \cup {LongKey(255), LongKey(256)}

\* values that are no APEValue: u"\xe9", [u"a", u"\xe9"], b"\xc3\xa9" (UTF-8)
\* and b"\xff\x00" (not UTF-8)
ValueUni == [py |-> "unicode", kind |-> 0, value |-> <<233>>, isbytes |-> FALSE, parts |-> <<>>]
ValueList == [py |-> "list", kind |-> 0, value |-> <<>>, isbytes |-> FALSE,
              parts |-> << <<97>>, <<233>> >>]
ValueBytesUtf8 == [py |-> "bytes", kind |-> 0, value |-> <<195, 169>>, isbytes |-> TRUE,
                   parts |-> <<>>]
ValueBytesRaw == [py |-> "bytes", kind |-> 0, value |-> <<255, 0>>, isbytes |-> TRUE,
                  parts |-> <<>>]
\* APEValue(b"\xc3\xa9", BINARY): binary forced on bytes that are valid UTF-8
ValueForced == [py |-> "APEValue", kind |-> BINARY, value |-> <<195, 169>>, isbytes |-> TRUE,
                parts |-> <<>>]
\* APEValue(b"x", 3): a kind that is none of the three
ValueKind3 == [py |-> "APEValue", kind |-> 3, value |-> <<120>>, isbytes |-> TRUE, parts |-> <<>>]
GuessedValues == {ValueUni, ValueList, ValueBytesUtf8, ValueBytesRaw, ValueForced, ValueKind3}

\* the writes tag[key] = value made: every key with a text value, the three
\* casings with a binary and an external value, and "Ab" with the values
\* that are guessed, forced or refused
KeyWrites ==
    {<<k, ValueX>> : k \in KeysWritten}
        \cup {<<k, v>> : k \in {KeyLower, KeyMixed, KeyUpper}, v \in {ValueBin, ValueExt}}
        \cup {<<KeyMixed, v>> : v \in GuessedValues}

\* tag.update([("ab", text), ("Ab", binary), ("AB", external)]): one key
\* written under three casings in turn
ThreeCasings == << <<KeyLower, ValueX>>, <<KeyMixed, ValueBin>>, <<KeyUpper, ValueExt>> >>
\* tag.update([("Ab", binary), ("TAG", text), ("AB", text)]): the second key is reserved
WithReserved == << <<KeyMixed, ValueBin>>, <<TAG, ValueX>>, <<KeyUpper, ValueX>> >>
KeyUpdates == {ThreeCasings, WithReserved}

\* an item as _internal packs it, with the flags word given
RawItem(key, flagbytes, value) ==
    to_uint_le(Len(value)) \o flagbytes \o key \o <<0>> \o value

\* a file that holds a tag of the items given after 40 bytes of audio
FileOf(itemseq) == Audio(40) \o WholeTag(Join(itemseq), Len(itemseq))

\* tags as lists of (key, flags word, value): the keys "k0", "k1", ...
FlagKey(i) == <<107, 48 + i>>
\* every flags word whose bits 1 and 2 are not both set, with bit 0 and all
\* the higher bits clear and set
GoodFlags ==
    << <<0, 0, 0, 0>>, <<1, 0, 0, 0>>, <<2, 0, 0, 0>>, <<3, 0, 0, 0>>, <<4, 0, 0, 0>>,
       <<5, 0, 0, 0>>, <<248, 255, 255, 255>>, <<251, 255, 255, 255>>, <<4, 1, 0, 128>> >>
FlagTagGood == [i \in 1..Len(GoodFlags) |-> <<FlagKey(i), GoodFlags[i], <<120, 48 + i>>>>]
\* an item of kind 3 after a text item; kind 3 with every other bit set too
FlagTagBad == << <<FlagKey(1), <<0, 0, 0, 0>>, <<120>>>>, <<FlagKey(2), <<6, 0, 0, 0>>, <<121>>>> >>
FlagTagBadHigh == << <<FlagKey(1), <<255, 255, 255, 255>>, <<120>>>> >>
FlagTags == {FlagTagGood, FlagTagBad, FlagTagBadHigh}
\* the file that holds such a tag
FlagFile(t) == FileOf([i \in 1..Len(t) |-> RawItem(t[i][1], t[i][2], t[i][3])])

\* a file that holds the item "Ab" in a tag whose header and footer declare
\* the version given
VersionFrame(version, size, count, topflag) ==
    APETAGEX \o to_uint_le(version) \o to_uint_le(size) \o to_uint_le(count)
        \o <<0, 0, 0, topflag>> \o Zeros(8)
VersionFile(version) ==
    Audio(40) \o VersionFrame(version, Len(ItemAb) + 32, 1, 160) \o ItemAb
        \o VersionFrame(version, Len(ItemAb) + 32, 1, 128)

\* the files loaded: no tag; items "Ab" and "AB", which differ in case only;
\* an item under the one-character key "a" after an item "Ab"; the tags with
\* every flags word; a tag of version 1000
KeyFiles == {
    Audio(40),
    FileOf(<<RawItem(KeyMixed, <<0, 0, 0, 0>>, <<120>>), RawItem(KeyUpper, <<2, 0, 0, 0>>, <<121>>)>>),
    FileOf(<<RawItem(KeyMixed, <<0, 0, 0, 0>>, <<120>>), RawItem(<<97>>, <<0, 0, 0, 0>>, <<121>>)>>)
} \cup {FlagFile(t) : t \in FlagTags} \cup {VersionFile(1000)}

\* a new object, on a file without a tag; load points it at another file
KeyInit ==
    /\ file = Audio(40)
    /\ dict = <<>>
    /\ casemap = {}
    /\ last = NoOp
    /\ prev = NoOp
    /\ steps = 0

\* The key specification keeps the record of the last call only: `prev` stays
\* as it is.

\* tag[key] = value; the record keeps the key and the value given
SetKey ==
    /\ steps < MaxSteps
    /\ \E w \in KeyWrites :
         LET r == setitem(dict, casemap, w[1], w[2])
         IN /\ dict' = r.dict
            /\ casemap' = r.casemap
            /\ last' = TagOp("setitem", r.err) @@ [key |-> w[1], given |-> w[2]]
    /\ steps' = steps + 1
    /\ UNCHANGED <<file, prev>>

\* tag.update(other); the record keeps the pairs given
UpdateKeys ==
    /\ steps < MaxSteps
    /\ \E other \in KeyUpdates :
         LET r == update(dict, casemap, other)
         IN /\ dict' = r.dict
            /\ casemap' = r.casemap
            /\ last' = TagOp("update", r.err) @@ [other |-> other]
    /\ steps' = steps + 1
    /\ UNCHANGED <<file, prev>>

\* del tag[key]
DelKey ==
    /\ steps < MaxSteps
    /\ \E key \in KeyInputs :
         LET r == delitem(dict, casemap, key)
         IN /\ dict' = r.dict
            /\ casemap' = r.casemap
            /\ last' = TagOp("delitem", r.err) @@ [key |-> key]
    /\ steps' = steps + 1
    /\ UNCHANGED <<file, prev>>

\* tag[key]; the record keeps the key and the value returned
GetKey ==
    /\ steps < MaxSteps
    /\ \E key \in KeyInputs :
         last' = TagOp("getitem", getitem(dict, key).err)
                     @@ [key |-> key, got |-> getitem(dict, key).value]
    /\ steps' = steps + 1
    /\ UNCHANGED <<file, dict, casemap, prev>>

\* tag.load(filename): the object is pointed at the file named and reads it
LoadKeys ==
    /\ steps < MaxSteps
    /\ \E f \in KeyFiles :
         LET Read(r) ==
                 /\ dict' = r.dict
                 /\ casemap' = r.casemap
                 /\ last' = TagOp("load", r.err)
         IN file' = f /\ Read(load(f, dict, casemap))
    /\ steps' = steps + 1
    /\ UNCHANGED prev

KeyNext == SetKey \/ UpdateKeys \/ DelKey \/ GetKey \/ LoadKeys

KeySpec == KeyInit /\ [][KeyNext]_vars

----------------------------------------------------------------------------
(* The box tree codec and the offset-table patcher.  Their code is not among
   the sources; they are modelled from sections 3, 4.2 and 4.3 of the design. *)

\* A length that may pass 2^32: hi * 2^16 + lo, with lo below 2^16
Wide(n) == [hi |-> n \div 65536, lo |-> n % 65536]
\* w + n for a small n
WidePlus(w, n) == [hi |-> w.hi + (w.lo + n) \div 65536, lo |-> (w.lo + n) % 65536]
\* w fits the 32-bit length field
Fits32(w) == w.hi < 65536
\* the 4-byte big-endian field that holds w, cut to 32 bits as the field is
Be32(w) == <<(w.hi \div 256) % 256, w.hi % 256, w.lo \div 256, w.lo % 256>>
\* the 8-byte big-endian field that holds w
Be64(w) ==
    <<0, 0, (w.hi \div 16777216) % 256, (w.hi \div 65536) % 256, (w.hi \div 256) % 256,
      w.hi % 256, w.lo \div 256, w.lo % 256>>
\* the length that a 4-byte or an 8-byte big-endian field holds
FromBe(b) ==
    IF Len(b) = 4 THEN [hi |-> b[1] * 256 + b[2], lo |-> b[3] * 256 + b[4]]
    ELSE [hi |-> ((b[3] * 256 + b[4]) * 256 + b[5]) * 256 + b[6], lo |-> b[7] * 256 + b[8]]
\* a length below 2^31 as a number
Narrow(w) == w.hi * 65536 + w.lo

\* a header whose width is chosen by the payload length alone, the 8 bytes
\* of the header left out
RenderHeaderByPayload(name, paylen, force64) ==
    IF Fits32(paylen) /\ ~force64
    THEN Be32(WidePlus(paylen, 8)) \o name
    ELSE Be32(Wide(1)) \o name \o Be64(WidePlus(paylen, 16))

\* the header that render writes for a payload of `paylen` bytes: the 4-byte
\* length form unless payload length plus the 8-byte header exceeds the range
\* of the 32-bit field, then length 1, the name and the 64-bit length
RenderHeader(name, paylen, force64) ==
    IF Fits32(WidePlus(paylen, 8)) /\ ~force64
    THEN Be32(WidePlus(paylen, 8)) \o name
    ELSE Be32(Wide(1)) \o name \o Be64(WidePlus(paylen, 16))

\* render(name, payload)
render(name, payload) == RenderHeader(name, Wide(Len(payload)), FALSE) \o payload
\* render with the 64-bit header requested
render64(name, payload) == RenderHeader(name, Wide(Len(payload)), TRUE) \o payload

\* box names
N_moov == <<109, 111, 111, 118>>
N_udta == <<117, 100, 116, 97>>
N_trak == <<116, 114, 97, 107>>
N_moof == <<109, 111, 111, 102>>
N_traf == <<116, 114, 97, 102>>
N_ilst == <<105, 108, 115, 116>>
N_stco == <<115, 116, 99, 111>>
N_co64 == <<99, 111, 54, 52>>
N_tfhd == <<116, 102, 104, 100>>
N_mdat == <<109, 100, 97, 116>>
N_free == <<102, 114, 101, 101>>
\* the names of the boxes that wrap other boxes
Containers == {N_moov, N_udta, N_trak, N_moof, N_traf}

\* Parse: the boxes from pos up to limit, each [name, position, size, header,
\* children]; children is None for a leaf.  A box whose header is cut short
\* or whose size is below its header or past the limit ends the scan
\* (TruncatedHeader below the top level, ignored garbage at the top level).
RECURSIVE ParseBoxes(_, _, _)
ParseBoxes(f, pos, limit) ==
    IF limit - pos < 8 THEN <<>>
    ELSE LET len32 == Narrow(FromBe(ReadAt(f, pos, 4)))
             name == ReadAt(f, pos + 4, 4)
             header == IF len32 = 1 THEN 16 ELSE 8
             size == IF len32 = 1 THEN Narrow(FromBe(ReadAt(f, pos + 8, 8)))
                     ELSE IF len32 = 0 THEN limit - pos
                     ELSE len32
             Box(sz) == [name |-> name, position |-> pos, size |-> sz, header |-> header,
                         children |-> IF name \in Containers
                                      THEN Some(ParseBoxes(f, pos + header, pos + sz))
                                      ELSE None]
         IN IF limit - pos < header THEN <<>>
            ELSE IF size < header \/ pos + size > limit THEN <<>>
            ELSE <<Box(size)>> \o ParseBoxes(f, pos + size, limit)

\* the tree of a file
Atoms(f) == ParseBoxes(f, 0, Len(f))

\* the boxes of a tree in file order, each with its path: the indices that
\* lead to it from the top level
RECURSIVE FlatBoxes(_, _)
FlatBoxes(boxes, prefix) ==
    IF Len(boxes) = 0 THEN <<>>
    ELSE LET WithPath(i) == [path |-> Append(prefix, i), name |-> boxes[i].name,
                             position |-> boxes[i].position, size |-> boxes[i].size,
                             header |-> boxes[i].header]
             Below(i) == IF boxes[i].children = None THEN <<>>
                         ELSE FlatBoxes(boxes[i].children[1], Append(prefix, i))
             RECURSIVE From(_)
             From(i) == IF i > Len(boxes) THEN <<>>
                        ELSE <<WithPath(i)>> \o Below(i) \o From(i + 1)
         IN From(1)

\* find(path): the boxes of the flat list whose path is `path` (none: NotFound)
FindBox(flat, path) == {i \in 1..Len(flat) : flat[i].path = path}

\* a size that is rewritten in short headers only
WriteSizeShortOnly(f, box, size) ==
    IF box.header = 8 THEN WriteAt(f, box.position, Be32(Wide(size))) ELSE f

\* the stored size of a box rewritten in place: the 4-byte length of a short
\* header, the 8-byte length of a 64-bit header
WriteSize(f, box, size) ==
    IF box.header = 8 THEN WriteAt(f, box.position, Be32(Wide(size)))
    ELSE WriteAt(f, box.position + 8, Be64(Wide(size)))

\* delta added to the stored size of the boxes i of the flat list whose path
\* leads to `path`: the box itself and every ancestor up to the root
RECURSIVE UpdateParents(_, _, _, _, _)
UpdateParents(f, flat, i, path, delta) ==
    IF i > Len(flat) THEN f
    ELSE LET onpath == /\ Len(flat[i].path) <= Len(path)
                       /\ SubSeq(path, 1, Len(flat[i].path)) = flat[i].path
         IN UpdateParents(IF onpath THEN WriteSize(f, flat[i], flat[i].size + delta) ELSE f,
                          flat, i + 1, path, delta)

\* an absolute offset after the move: shifted by delta when it points at or
\* after the boundary
Shifted(e, delta, boundary) == IF e >= boundary THEN e + delta ELSE e

\* the entries of a chunk-offset table rewritten: `width` is 4 (stco) or 8
\* (co64); the table holds version and flags, a count, and the entries
RECURSIVE PatchTable(_, _, _, _, _, _)
PatchTable(f, first, width, count, delta, boundary) ==
    IF count = 0 THEN f
    ELSE LET e == Narrow(FromBe(ReadAt(f, first, width)))
             field == IF width = 4 THEN Be32(Wide(Shifted(e, delta, boundary)))
                      ELSE Be64(Wide(Shifted(e, delta, boundary)))
         IN PatchTable(WriteAt(f, first, field), first + width, width, count - 1,
                       delta, boundary)

\* a fragment header rewritten: version, three bytes of flags, a track id,
\* and the base offset when bit 0 of the flags is set
PatchFragment(f, data, delta, boundary) ==
    IF ReadAt(f, data + 3, 1)[1] % 2 = 1
    THEN WriteAt(f, data + 8,
                 Be64(Wide(Shifted(Narrow(FromBe(ReadAt(f, data + 8, 8))), delta, boundary))))
    ELSE f

\* the patcher that leaves the 64-bit tables as they are
PatchOneSkip64(f, box, delta, boundary) ==
    IF box.name = N_stco
    THEN PatchTable(f, box.position + box.header + 8, 4,
                    Narrow(FromBe(ReadAt(f, box.position + box.header + 4, 4))), delta, boundary)
    ELSE IF box.name = N_tfhd THEN PatchFragment(f, box.position + box.header, delta, boundary)
    ELSE f

\* the patcher on one box: the 32-bit table, the 64-bit table, the fragment header
PatchOne(f, box, delta, boundary) ==
    IF box.name = N_stco
    THEN PatchTable(f, box.position + box.header + 8, 4,
                    Narrow(FromBe(ReadAt(f, box.position + box.header + 4, 4))), delta, boundary)
    ELSE IF box.name = N_co64
    THEN PatchTable(f, box.position + box.header + 8, 8,
                    Narrow(FromBe(ReadAt(f, box.position + box.header + 4, 4))), delta, boundary)
    ELSE IF box.name = N_tfhd THEN PatchFragment(f, box.position + box.header, delta, boundary)
    ELSE f

\* the offset-table patcher: a pass over every box of the tree
RECURSIVE PatchOffsets(_, _, _, _, _)
PatchOffsets(f, flat, i, delta, boundary) ==
    IF i > Len(flat) THEN f
    ELSE PatchOffsets(PatchOne(f, flat[i], delta, boundary), flat, i + 1, delta, boundary)

\* replace(box, new_payload): the splice primitive at the payload's bytes,
\* the new payload written, delta added to the box and its ancestors, the
\* offset tables patched with the payload's offset as the boundary
replace(f, path, payload, mmapOk) ==
    LET At(flat, found) ==
            IF found = {} THEN [file |-> f, err |-> "NotFound", delta |-> 0, boundary |-> 0]
            ELSE LET box == flat[CHOOSE i \in found : TRUE]
                     data == box.position + box.header
                     delta == Len(payload) - (box.size - box.header)
                     Finish(spliced) ==
                         IF spliced.err # "ok"
                         THEN [file |-> spliced.file, err |-> spliced.err,
                               delta |-> delta, boundary |-> data]
                         ELSE LET Patch(sized) ==
                                      IF delta = 0 THEN sized
                                      ELSE PatchOffsets(sized, FlatBoxes(Atoms(sized), <<>>), 1,
                                                        delta, data)
                              IN [file |-> Patch(UpdateParents(WriteAt(spliced.file, data, payload),
                                                               flat, 1, path, delta)),
                                  err |-> "ok", delta |-> delta, boundary |-> data]
                 IN Finish(IF delta > 0
                           THEN insert_bytes(f, delta, data, DefaultBufferSize, mmapOk, TRUE)
                           ELSE IF delta < 0
                           THEN delete_bytes(f, 0 - delta, data, DefaultBufferSize, mmapOk)
                           ELSE [file |-> f, err |-> "ok"])
        In(flat) == At(flat, FindBox(flat, path))
    IN In(FlatBoxes(Atoms(f), <<>>))

----------------------------------------------------------------------------
(* The box specification: payloads of the boxes of a file replaced, and
   headers rendered *)

\* sample data: 16 bytes from `first` on, two samples of 8 bytes and more
Samples(first) == [i \in 1..16 |-> first + i]

\* a 32-bit and a 64-bit chunk-offset table and a fragment header
Stco(entries) ==
    render(N_stco, <<0, 0, 0, 0>> \o Be32(Wide(Len(entries)))
                       \o Join([i \in 1..Len(entries) |-> Be32(Wide(entries[i]))]))
Co64(entries) ==
    render(N_co64, <<0, 0, 0, 0>> \o Be32(Wide(Len(entries)))
                       \o Join([i \in 1..Len(entries) |-> Be64(Wide(entries[i]))]))
Tfhd(flagged, base) ==
    render(N_tfhd, IF flagged THEN <<0, 0, 0, 1>> \o <<0, 0, 0, 1>> \o Be64(Wide(base))
                   ELSE <<0, 0, 0, 0>> \o <<0, 0, 0, 1>>)

\* moov [udta [ilst], trak [stco, co64]]; moov and udta take 64-bit headers when `wide`
Moov(wide, e1, e2) ==
    LET Wrap(name, payload) == IF wide THEN render64(name, payload) ELSE render(name, payload)
    IN Wrap(N_moov, Wrap(N_udta, render(N_ilst, <<21, 22, 23, 24>>))
                        \o render(N_trak, Stco(e1) \o Co64(e2)))

\* mdat, moov, free, moof [traf [tfhd]], mdat: the tables point at samples of
\* the first mdat, before the tag, and of the second, after it
BoxFile(wide, flagged) ==
    LET start == render(N_mdat, Samples(10))
        free == render(N_free, <<0, 0>>)
        second == Len(start) + Len(Moov(wide, <<0, 0>>, <<0, 0>>)) + Len(free)
                      + Len(render(N_moof, render(N_traf, Tfhd(flagged, 0))))
    IN start \o Moov(wide, <<8, second + 8>>, <<12, second + 12>>) \o free
           \o render(N_moof, render(N_traf, Tfhd(flagged, second + 10)))
           \o render(N_mdat, Samples(30))

BoxFiles == {BoxFile(wide, flagged) : wide \in BOOLEAN, flagged \in BOOLEAN}

\* the boxes whose payload is replaced: moov.udta.ilst, free, and one that is not there
PathIlst == <<2, 1, 1>>
PathFree == <<3>>
BoxTargets == {PathIlst, PathFree, <<9>>}

\* the payloads written: 0, 2, 4, 6 and 29 bytes, the last 25 bytes longer than ilst's own
BoxPayloads == {[i \in 1..n |-> 40 + i] : n \in {0, 2, 4, 6, 29}}

\* the payload lengths rendered: small ones, and those around 2^32 - 8 and 2^32
RenderLengths ==
    {Wide(0), Wide(4), [hi |-> 65535, lo |-> 65526], [hi |-> 65535, lo |-> 65527],
     [hi |-> 65535, lo |-> 65528], [hi |-> 65535, lo |-> 65535], [hi |-> 65536, lo |-> 0],
     [hi |-> 65536, lo |-> 1]}

\* replace and render are functions of the file's bytes and of their
\* arguments: a behaviour is a start file and one call
BoxCallable == last.op = "init"

BoxInit ==
    /\ file \in BoxFiles
    /\ dict = <<>>
    /\ casemap = {}
    /\ last = NoOp
    /\ prev = NoOp
    /\ steps = 0

\* replace(box, payload) on the file
ReplacePayload ==
    /\ BoxCallable
    /\ \E path \in BoxTargets, payload \in BoxPayloads, mmapOk \in BOOLEAN :
         LET Done(r) ==
                 /\ file' = r.file
                 /\ last' = [op |-> "replace", status |-> r.err, pre |-> file, items |-> {},
                             size |-> Len(payload), offset |-> r.boundary,
                             path |-> IF mmapOk THEN "mmap" ELSE "fallback", bufsize |-> 0]
                                @@ [target |-> path, delta |-> r.delta]
         IN Done(replace(file, path, payload, mmapOk))
    /\ prev' = last
    /\ steps' = steps + 1
    /\ UNCHANGED <<dict, casemap>>

\* render(name, payload) for a payload of the length given: the record keeps
\* the length and the header written
RenderBox ==
    /\ BoxCallable
    /\ \E paylen \in RenderLengths :
         last' = [op |-> "render", status |-> "ok", pre |-> file, items |-> {},
                  size |-> 0, offset |-> 0, path |-> "none", bufsize |-> 0]
                     @@ [paylen |-> paylen, rendered |-> RenderHeader(N_free, paylen, FALSE)]
    /\ prev' = last
    /\ steps' = steps + 1
    /\ UNCHANGED <<file, dict, casemap>>

BoxNext == ReplacePayload \/ RenderBox

BoxSpec == BoxInit /\ [][BoxNext]_vars

----------------------------------------------------------------------------
(* More properties of insert_bytes and delete_bytes, checked under SpliceSpec *)

\* C21: after insert_bytes(f, size, offset) with size > 0 and offset <= len(f)
\* the size bytes at positions [offset, offset + size) are all zero.
C21_GapIsZero ==
    InRangeInsert(last) =>
        \A i \in (last.offset + 1)..(last.offset + last.size) : file[i] = 0

----------------------------------------------------------------------------
(* Properties of the items of an APEv2 object, checked under KeySpec *)

\* the entries of the object stored under the lowercased key lk
EntriesOf(lk) == {i \in 1..Len(dict) : lower(keys(dict, casemap)[i]) = lk}

\* C11: the object holds at most one entry per lowercased key; after a write
\* that entry has the value written and keys() reports the key in the case
\* written; after one key is written under three casings in one update, the
\* one entry has the third value and the third casing.
C11_OneEntryPerKey ==
    /\ \A i, j \in 1..Len(dict) :
           lower(keys(dict, casemap)[i]) = lower(keys(dict, casemap)[j]) => i = j
    /\ (last.op = "setitem" /\ last.status = "ok")
           => \E i \in 1..Len(dict) :
                  /\ EntriesOf(lower(last.key)) = {i}
                  /\ keys(dict, casemap)[i] = last.key
                  /\ last.given.py = "APEValue" =>
                         /\ dict[i][2].kind = last.given.kind
                         /\ dict[i][2].value = last.given.value
    /\ (last.op = "update" /\ last.other = ThreeCasings)
           => /\ last.status = "ok"
              /\ Cardinality(EntriesOf(KeyLower)) = 1
              /\ \A i \in EntriesOf(KeyLower) :
                     /\ keys(dict, casemap)[i] = KeyUpper
                     /\ dict[i][2].kind = ValueExt.kind
                     /\ dict[i][2].value = ValueExt.value

\* C11 happens: "ab" was held with a text value, was then written as "ab",
\* "Ab" and "AB" in one update, and is now held once, as "AB"
C11_Witness ==
    /\ last.op = "update" /\ last.other = ThreeCasings
    /\ \E it \in last.items : lower(it[1]) = KeyLower /\ it[2].kind = TEXT
    /\ keys(dict, casemap) = <<KeyUpper>>
    /\ dict[1][2].kind = EXTERNAL

\* a key of 2 to 255 characters, each from " " to "~", that is no reserved word
LegalKey(key) ==
    /\ Len(key) >= 2 /\ Len(key) <= 255
    /\ \A i \in 1..Len(key) : key[i] >= 32 /\ key[i] <= 126
    /\ key \notin {<<79, 103, 103, 83>>, <<84, 65, 71>>, <<73, 68, 51>>, <<77, 80, 43>>}

\* C12: a write, a lookup or a delete under a key that is not legal raises
\* KeyError and leaves the entries as they were; every key that keys()
\* returns is legal.
C12_IllegalKeyRefused ==
    /\ (last.op \in {"setitem", "getitem", "delitem"} /\ ~LegalKey(last.key))
           => /\ last.status = "KeyError"
              /\ ItemSet(dict, casemap) = last.items
    /\ \A i \in 1..Len(dict) : LegalKey(keys(dict, casemap)[i])

\* C12 happens: a write under a key of 256 characters was refused while the
\* object held entries
C12_Witness ==
    /\ last.op = "setitem" /\ last.key = LongKey(256)
    /\ last.status = "KeyError"
    /\ Len(dict) >= 1
    /\ ItemSet(dict, casemap) = last.items

\* bit n of the first byte of a flags word
FlagBit(flagbytes, n) == (flagbytes[1] \div (2 ^ n)) % 2
\* the first item of a tag with bits 1 and 2 both set, 0 if there is none
RECURSIVE FirstKind3(_, _)
FirstKind3(t, i) ==
    IF i > Len(t) THEN 0
    ELSE IF FlagBit(t[i][2], 1) = 1 /\ FlagBit(t[i][2], 2) = 1 THEN i
    ELSE FirstKind3(t, i + 1)

\* C17: when items are parsed, the kind of each is taken from bits 1 and 2 of
\* its flags word, whatever bit 0 and the higher bits are: kinds 0, 1 and 2
\* give a text, a binary and an external value, and kind 3 makes the load fail
\* with APEBadItemError without storing the item.
C17_KindFromBitsOneAndTwo ==
    \A t \in FlagTags :
        (last.op = "load" /\ file = FlagFile(t)) =>
            IF FirstKind3(t, 1) = 0
            THEN /\ last.status = "ok"
                 /\ Len(dict) = Len(t)
                 /\ \A i \in 1..Len(t) :
                        /\ getitem(dict, t[i][1]).err = "ok"
                        /\ getitem(dict, t[i][1]).value[1].value = t[i][3]
                        /\ getitem(dict, t[i][1]).value[1].kind =
                               (IF FlagBit(t[i][2], 1) = 1 THEN BINARY
                                ELSE IF FlagBit(t[i][2], 2) = 1 THEN EXTERNAL
                                ELSE TEXT)
            ELSE /\ last.status = "APEBadItemError"
                 /\ getitem(dict, t[FirstKind3(t, 1)][1]).err = "KeyError"

\* a load stopped at an item of kind 3 that came after a text item
C17_Kind3Refused ==
    /\ last.op = "load"
    /\ file = FlagFile(FlagTagBad)
    /\ last.status = "APEBadItemError"

\* C17 happens: items of every kind were loaded from words with bit 0 and the
\* higher bits set
C17_Witness ==
    /\ last.op = "load"
    /\ file = FlagFile(FlagTagGood)
    /\ {dict[i][2].kind : i \in 1..Len(dict)} = {TEXT, BINARY, EXTERNAL}
    /\ getitem(dict, FlagKey(8)).value[1].kind = BINARY

\* the version that the tag located in f declares, None if no tag is located
LocatedVersion(f) ==
    LET Of(data) == IF data.err = "ok" /\ data.version # None
                    THEN Some(uint_le(data.version[1])) ELSE None
    IN Of(APEv2Data(f))

\* C18: load fails with APEUnsupportedVersionError when the version field of
\* the located tag is not the supported version 2000; no items are taken from
\* such a tag.
C18_OtherVersionRefused ==
    (last.op = "load" /\ LocatedVersion(file) # None /\ LocatedVersion(file) # Some(Version))
        => last.status = "APEUnsupportedVersionError"

\* the value held under the key last written
Stored == getitem(dict, last.key).value[1]

\* C20: a value that is no tag value object is classified when it is
\* assigned: a Unicode string and a list become a text value, a byte string
\* that is valid UTF-8 a text value, one that is not a binary value; a value
\* built with APEValue(value, kind) keeps the kind given, and a kind that is
\* not text, binary or external is refused with ValueError.
C20_ValueClassified ==
    (last.op = "setitem" /\ LegalKey(last.key)) =>
        /\ last.given = ValueUni =>
               last.status = "ok" /\ Stored.kind = TEXT /\ Stored.value = <<195, 169>>
        /\ last.given = ValueList =>
               last.status = "ok" /\ Stored.kind = TEXT /\ Stored.value = <<97, 0, 195, 169>>
        /\ last.given = ValueBytesUtf8 =>
               last.status = "ok" /\ Stored.kind = TEXT /\ Stored.value = <<195, 169>>
        /\ last.given = ValueBytesRaw =>
               last.status = "ok" /\ Stored.kind = BINARY /\ Stored.value = <<255, 0>>
        /\ (last.given.py = "APEValue" /\ last.given.kind \in {0, 1, 2}) =>
               /\ last.status = "ok"
               /\ Stored.kind = last.given.kind
               /\ Stored.value = last.given.value
        /\ (last.given.py = "APEValue" /\ last.given.kind \notin {0, 1, 2}) =>
               /\ last.status = "ValueError"
               /\ ItemSet(dict, casemap) = last.items

\* a write of APEValue(value, 3) was refused while the object held entries
C20_Kind3Refused ==
    /\ last.op = "setitem" /\ last.given = ValueKind3
    /\ last.status = "ValueError"
    /\ Len(dict) >= 1

\* C20 happens: bytes that are valid UTF-8 were stored as text under a key
\* that held a binary value
C20_Witness ==
    /\ last.op = "setitem" /\ last.given = ValueBytesUtf8 /\ last.status = "ok"
    /\ \E it \in last.items : lower(it[1]) = lower(last.key) /\ it[2].kind = BINARY
    /\ Stored.kind = TEXT

----------------------------------------------------------------------------
(* Properties of the locator and of save, checked under Spec *)

\* the cookie is read at offset p of f
CookieAt(f, p) == p >= 0 /\ ReadAt(f, p, 8) = APETAGEX

\* the number of copies of the cookie found at steps of 24 bytes before the
\* header at h, without a gap
CopiesBefore(f, h) ==
    CHOOSE k \in 0..(h \div BrokenStep) :
        /\ \A j \in 1..k : CookieAt(f, h - BrokenStep * j)
        /\ ~CookieAt(f, h - BrokenStep * (k + 1))

\* the tag that the locator finds in f
TagIn(f) == APEv2Data(f)

\* C13: the locator reports the start of a tag at header - 24 * k, where k
\* counts the copies of the cookie that precede the header at steps of 24
\* bytes without a gap; delete on a tag with such copies removes the span
\* from that start to the end of the tag and leaves none of the copies.
C13_StartBeforeCopies ==
    /\ (TagIn(file).err = "ok" /\ TagIn(file).start # None)
           => TagIn(file).start[1]
                  = TagIn(file).header[1] - BrokenStep * CopiesBefore(file, TagIn(file).header[1])
    /\ (last.op = "delete" /\ HasTag(last) /\ CopiesBefore(last.pre, Located(last).header[1]) > 0)
           => /\ last.status = "ok"
              /\ file = WithoutSpan(last)
              /\ Len(file) = Len(last.pre) - (Located(last).end[1] - Located(last).start[1])
              /\ \A j \in 1..CopiesBefore(last.pre, Located(last).header[1]) :
                     ~CookieAt(file, Located(last).header[1] - BrokenStep * j)

\* C13 happens: delete removed a tag with the two headers left before it
C13_Witness ==
    /\ last.op = "delete" /\ HasTag(last)
    /\ CopiesBefore(last.pre, Located(last).header[1]) = 2
    /\ Located(last).start[1] = Located(last).header[1] - 48
    /\ file = Audio(40)

\* the bytes that the entries of the object take as items: for each, two
\* 32-bit words, the key, a NUL and the value
RECURSIVE ItemBytes(_, _)
ItemBytes(d, i) ==
    IF i > Len(d) THEN 0
    ELSE 8 + Len(d[i][1]) + 1 + Len(d[i][2].value) + ItemBytes(d, i + 1)

\* a 32-byte frame at offset p of f: the cookie, version 2000, the size and
\* the item count given, the flags in the top byte, eight bytes of zero
FrameAt(f, p, size, count, topflag) ==
    /\ p >= 0
    /\ ReadAt(f, p, 8) = APETAGEX
    /\ ReadAt(f, p + 8, 4) = <<208, 7, 0, 0>>
    /\ uint_le(ReadAt(f, p + 12, 4)) = size
    /\ uint_le(ReadAt(f, p + 16, 4)) = count
    /\ ReadAt(f, p + 20, 4) = <<0, 0, 0, topflag>>
    /\ ReadAt(f, p + 24, 8) = Zeros(8)

\* f ends with a header, n bytes of items and a footer for `count` items
EndsWithTag(f, n, count) ==
    /\ Len(f) >= n + 64
    /\ FrameAt(f, Len(f) - n - 64, n + 32, count, 160)
    /\ FrameAt(f, Len(f) - 32, n + 32, count, 128)

\* a save that returned
Saved == last.op = "save" /\ last.status = "ok"

----------------------------------------------------------------------------
(* Properties of the box tree codec, checked under BoxSpec *)

\* the offsets that one box holds: the entries of a 32-bit or a 64-bit
\* chunk-offset table, the base offset of a flagged fragment header
EntriesOfBox(f, box) ==
    LET data == box.position + box.header
        count == Narrow(FromBe(ReadAt(f, data + 4, 4)))
    IN IF box.name = N_stco
       THEN [k \in 1..count |-> Narrow(FromBe(ReadAt(f, data + 8 + 4 * (k - 1), 4)))]
       ELSE IF box.name = N_co64
       THEN [k \in 1..count |-> Narrow(FromBe(ReadAt(f, data + 8 + 8 * (k - 1), 8)))]
       ELSE IF box.name = N_tfhd /\ ReadAt(f, data + 3, 1)[1] % 2 = 1
       THEN <<Narrow(FromBe(ReadAt(f, data + 8, 8)))>>
       ELSE <<>>

\* every offset of a file, in file order
OffsetEntries(f) ==
    LET All(flat) == Join([i \in 1..Len(flat) |-> EntriesOfBox(f, flat[i])])
    IN All(FlatBoxes(Atoms(f), <<>>))

\* a replace that went through and changed the size of the payload
Resized == last.op = "replace" /\ last.status = "ok" /\ last.delta # 0

\* C14: after a replace that changes the tag size by delta bytes at boundary
\* B, every entry e of the 32-bit and 64-bit chunk-offset tables and every
\* flagged fragment base offset with e >= B equals e + delta in the rewritten
\* file, every entry with e < B is unchanged, and each entry points at the
\* same sample bytes as before.
C14_OffsetsFollowSamples ==
    Resized =>
        LET Same(before, after) ==
                /\ Len(after) = Len(before)
                /\ \A k \in 1..Len(before) :
                     /\ before[k] >= last.offset => after[k] = before[k] + last.delta
                     /\ before[k] < last.offset => after[k] = before[k]
                     /\ ReadAt(file, after[k], 8) = ReadAt(last.pre, before[k], 8)
        IN Same(OffsetEntries(last.pre), OffsetEntries(file))

\* a resizing replace on a file with a 32-bit table, a 64-bit table and a
\* flagged fragment header, each with an entry before or after the boundary
C14_Witness ==
    /\ Resized
    /\ LET Both(before) ==
               /\ Len(before) = 5
               /\ \E k \in 1..4 : before[k] < last.offset
               /\ \E k \in 1..2 : before[k] >= last.offset
               /\ \E k \in 3..4 : before[k] >= last.offset
               /\ before[5] >= last.offset
       IN Both(OffsetEntries(last.pre))

\* the box of a flat list lies on the way from the top level to `path`
OnPath(box, path) ==
    Len(box.path) <= Len(path) /\ SubSeq(path, 1, Len(box.path)) = box.path

TwoTo32 == [hi |-> 65536, lo |-> 0]
\* a < b for lengths
WideLess(a, b) == a.hi < b.hi \/ (a.hi = b.hi /\ a.lo < b.lo)

\* the widths of a rendered header
ShortForm(h) == Len(h) = 8
LongForm(h) == Len(h) = 16 /\ SubSeq(h, 1, 4) = <<0, 0, 0, 1>>
\* the total size that a rendered header declares
Declared(h) == IF Len(h) = 8 THEN FromBe(SubSeq(h, 1, 4)) ELSE FromBe(SubSeq(h, 9, 16))

\* C16 as stated: render writes the 4-byte length form for every payload
\* shorter than 2^32 bytes and the 64-bit form for every payload of 2^32
\* bytes or more, and the length written is the real total size of the box.
C16_ShortBelowTwoTo32 ==
    last.op = "render" =>
        /\ WideLess(last.paylen, TwoTo32) =>
               ShortForm(last.rendered) /\ Declared(last.rendered) = WidePlus(last.paylen, 8)
        /\ ~WideLess(last.paylen, TwoTo32) =>
               LongForm(last.rendered) /\ Declared(last.rendered) = WidePlus(last.paylen, 16)

\* C16 (amended): render writes the 4-byte length form for every payload of
\* at most 2^32 - 9 bytes, whose total of payload plus 8 fits the 32-bit
\* field, and the 64-bit form for every longer payload; in both forms the
\* length written is the real total size of the box.
C16_ShortWhileTotalFits ==
    last.op = "render" =>
        /\ WideLess(WidePlus(last.paylen, 8), TwoTo32) =>
               ShortForm(last.rendered) /\ Declared(last.rendered) = WidePlus(last.paylen, 8)
        /\ ~WideLess(WidePlus(last.paylen, 8), TwoTo32) =>
               LongForm(last.rendered) /\ Declared(last.rendered) = WidePlus(last.paylen, 16)

\* a payload of 2^32 - 9 bytes rendered short, or one of 2^32 - 8 rendered long
C16_Witness ==
    /\ last.op = "render"
    /\ \/ last.paylen = [hi |-> 65535, lo |-> 65527] /\ ShortForm(last.rendered)
       \/ last.paylen = [hi |-> 65535, lo |-> 65528] /\ LongForm(last.rendered)

----------------------------------------------------------------------------
(* Properties of the locator, checked under LocateSpec *)

\* the cookie is read 32 bytes before the end of f
AtEnd(f) == Len(f) >= 32 /\ CookieAt(f, Len(f) - 32)
\* the last 128 bytes of f begin with "TAG"
HasTrailer(f) == Len(f) >= 128 /\ ReadAt(f, Len(f) - 128, 3) = TAG
\* the cookie is read 160 bytes before the end of f
BeforeTrailer(f) == CookieAt(f, Len(f) - 160)
\* "LYRICS200" lies before the last 128 bytes of f, after six digits
HasLyrics(f) ==
    /\ Len(f) >= 160
    /\ ReadAt(f, Len(f) - 137, 9) = LYRICS200
    /\ \A i \in 1..6 : f[Len(f) - 143 + i] \in 48..57
\* the number N that the six digits spell
LyricsSize(f) ==
    LET Digit(i) == f[Len(f) - 143 + i] - 48
    IN 100000 * Digit(1) + 10000 * Digit(2) + 1000 * Digit(3) + 100 * Digit(4)
           + 10 * Digit(5) + Digit(6)
\* the cookie is read 175 + N bytes before the end of f
BeforeLyrics(f) == HasLyrics(f) /\ CookieAt(f, Len(f) - 175 - LyricsSize(f))
\* one of the probes from the end of f finds a footer
TrailingFooter(f) ==
    \/ AtEnd(f)
    \/ HasTrailer(f) /\ Len(f) >= 160 /\ (BeforeTrailer(f) \/ BeforeLyrics(f))
\* the locator finds nothing in f
NothingFound(f) ==
    /\ TagIn(f).err = "ok"
    /\ TagIn(f).start = None /\ TagIn(f).header = None /\ TagIn(f).footer = None
    /\ ~TagIn(f).is_at_start

\* C22: the probes come in a fixed order and the first hit ends the search.
\* With the cookie at EOF-32 the footer is EOF-32 and the tag is not at the
\* start, whatever the file starts with; the tag is at the start, with
\* header 0, only when no probe from the end found a footer and the cookie
\* is at offset 0; a file shorter than 32 bytes or without a cookie at any
\* probe holds no tag and load fails with APENoHeaderError.
C22_ProbesInOrder ==
    /\ (AtEnd(file) /\ TagIn(file).err = "ok")
           => TagIn(file).footer = Some(Len(file) - 32) /\ ~TagIn(file).is_at_start
    /\ TagIn(file).is_at_start
           => /\ TagIn(file).header = Some(0)
              /\ CookieAt(file, 0)
              /\ ~TrailingFooter(file)
    /\ (Len(file) < 32 \/ (~TrailingFooter(file) /\ ~CookieAt(file, 0)))
           => /\ NothingFound(file)
              /\ last.op = "load" => last.status = "APENoHeaderError"

\* C22 happens: a tag that is the whole file was loaded and is not at the start
C22_Witness ==
    /\ last.op = "load" /\ last.status = "ok"
    /\ CookieAt(file, 0) /\ AtEnd(file)
    /\ TagIn(file).end = Some(Len(file)) /\ TagIn(file).start = Some(0)
    /\ ~TagIn(file).is_at_start

\* C23: with no cookie at EOF-32 and "TAG" at EOF-128, the footer is EOF-160
\* if the cookie is there; else, if "LYRICS200" lies at EOF-137 after six
\* digits that spell N, the footer is EOF-175-N if the cookie is there; a
\* size field that is no number, or a position before the start of the
\* file, raises nothing: the probe at the start of the file decides.
C23_TrailerProbes ==
    (~AtEnd(file) /\ HasTrailer(file)) =>
        /\ TagIn(file).err = "ok"
        /\ BeforeTrailer(file) => TagIn(file).footer = Some(Len(file) - 160)
        /\ (~BeforeTrailer(file) /\ BeforeLyrics(file))
               => TagIn(file).footer = Some(Len(file) - 175 - LyricsSize(file))
        /\ (~BeforeTrailer(file) /\ ~BeforeLyrics(file))
               => IF CookieAt(file, 0)
                  THEN TagIn(file).is_at_start /\ TagIn(file).header = Some(0)
                  ELSE NothingFound(file)

\* C23 happens: a tag found through the size field of a Lyrics3v2 block was loaded
C23_Witness ==
    /\ last.op = "load" /\ last.status = "ok"
    /\ ~AtEnd(file) /\ HasTrailer(file) /\ ~BeforeTrailer(file) /\ BeforeLyrics(file)
    /\ LyricsSize(file) = 11
    /\ TagIn(file).footer = Some(Len(file) - 186)
    /\ Len(dict) = 1

\* a size field that is no number, and one that points before the file, left
\* the tag at the start to be found
C23_FallsThrough ==
    /\ HasTrailer(file) /\ TagIn(file).is_at_start
    /\ ReadAt(file, Len(file) - 137, 9) = LYRICS200

\* the locator finds a tag in f
Finds(f) == TagIn(f).err = "ok" /\ TagIn(f).start # None
\* the tag of f was found through a footer whose flags lack the has-header bit
NoHeaderBit(f) == TrailingFooter(f) /\ TagIn(f).flags[1][4] < 128

\* C24 as stated: for every tag located, a header or a footer is set, data =
\* header + 32 whenever a header is set, and end = footer + 32 whenever a
\* footer is set, a tag without the has-header bit included.
C24_DataAfterHeader ==
    Finds(file) =>
        /\ TagIn(file).header # None \/ TagIn(file).footer # None
        /\ TagIn(file).header # None => TagIn(file).data[1] = TagIn(file).header[1] + 32
        /\ TagIn(file).footer # None => TagIn(file).end[1] = TagIn(file).footer[1] + 32

\* C24 (amended): for every tag located, a header or a footer is set, end =
\* footer + 32 whenever a footer is set, and data = header + 32 whenever a
\* header is set, except for a tag found through a footer whose flags lack
\* the has-header bit: there header = data, the first byte of the items.
C24_DataAfterHeaderIfAny ==
    Finds(file) =>
        /\ TagIn(file).header # None \/ TagIn(file).footer # None
        /\ (TagIn(file).header # None /\ ~NoHeaderBit(file))
               => TagIn(file).data[1] = TagIn(file).header[1] + 32
        /\ NoHeaderBit(file) => TagIn(file).header = TagIn(file).data
        /\ TagIn(file).footer # None => TagIn(file).end[1] = TagIn(file).footer[1] + 32

\* C24 happens: a tag without a header was loaded; its header field is the
\* offset of its items
C24_Witness ==
    /\ last.op = "load" /\ last.status = "ok"
    /\ NoHeaderBit(file)
    /\ TagIn(file).header = Some(40) /\ TagIn(file).data = Some(40)
    /\ TagIn(file).end = Some(Len(file))
    /\ Len(dict) = 1

----------------------------------------------------------------------------
(* Properties of the calls that insert_bytes, delete_bytes and the scan of
   __fix_brokenness make, checked under StepSpec *)

\* the indices of the calls of one kind that the running call has made
At(call) == {i \in DOMAIN last.calls : last.calls[i].call = call}
\* the frame is one of insert_bytes or delete_bytes
Splicing == last.op \in {"insert_bytes", "delete_bytes"}
\* the call has returned or raised
Done == last.pc = "done"

\* the steps compute what the functions of the splice specification compute,
\* and the scan what the locator computes
StepsAgree ==
    Done =>
        /\ (last.op = "insert_bytes" /\ last.unlock # "failed") =>
               \E mmapOk \in BOOLEAN, negReadAll \in BOOLEAN :
                 LET r == insert_bytes(last.pre, last.size, last.offset, last.bufsize,
                                       mmapOk, negReadAll)
                 IN r.file = file /\ r.err = last.status
        /\ (last.op = "delete_bytes" /\ last.unlock # "failed") =>
               \E mmapOk \in BOOLEAN :
                 LET r == delete_bytes(last.pre, last.size, last.offset, last.bufsize, mmapOk)
                 IN r.file = file /\ r.err = last.status
        /\ last.op = "fix_brokenness" =>
               /\ APEv2Data(file).err = last.status
               /\ last.status = "ok" => APEv2Data(file).start = Some(last.start)

\* C25: lock() is called only after the mmap path was tried and failed;
\* unlock() is called only after lock() returned True, and exactly once by
\* the time the call returns or raises; it is never called when lock()
\* returned False or was not called; an unlock() that fails makes the call
\* raise its exception.
C25_LockAfterMmapUnlockOnce ==
    Splicing =>
        /\ \A i \in At("lock") : At("move") = {} /\ \E j \in At("mmap") : j < i
        /\ Cardinality(At("lock")) <= 1
        /\ last.locked => At("lock") # {}
        /\ \A i \in At("unlock") : last.locked /\ \E j \in At("lock") : j < i
        /\ Done => Cardinality(At("unlock")) = IF last.locked THEN 1 ELSE 0
        /\ (Done /\ last.unlock = "failed") => last.status = "IOError"

\* C25 happens: a call that fell back and held the lock has returned, the
\* lock released once
C25_Witness ==
    /\ Splicing /\ Done /\ last.status = "ok"
    /\ last.locked /\ last.unlock = "ok"
    /\ Cardinality(At("lock")) = 1 /\ Cardinality(At("unlock")) = 1
    /\ At("write") # {}

\* a call that fell back without the lock, one whose fallback raised with
\* the lock held, and one whose unlock failed
C25_NoLock == Splicing /\ Done /\ At("lock") # {} /\ ~last.locked /\ At("unlock") = {}
C25_RaisedLocked == Splicing /\ Done /\ last.status = "ValueError" /\ last.locked
C25_UnlockFailed == Splicing /\ Done /\ last.unlock = "failed"

\* C26: in a call that runs the fallback, no buffer read from the file or
\* written to it is larger than BUFFER_SIZE.
C26_BuffersWithinBufferSize ==
    (Splicing /\ At("lock") # {}) =>
        \A i \in At("read") \cup At("write") : last.calls[i].n <= last.bufsize

\* what holds instead: the buffers of delete_bytes, and those of insert_bytes
\* from the lock on, are within BUFFER_SIZE
C26_FallbackBuffersWithin ==
    (Splicing /\ At("lock") # {}) =>
        \A i \in At("read") \cup At("write") :
            (\E j \in At("lock") : j < i) => last.calls[i].n <= last.bufsize

----------------------------------------------------------------------------
(* Termination, checked under StepFairSpec *)

\* the last flush of the call, 0 if it has made none
LastFlush == IF At("flush") = {} THEN 0 ELSE CHOOSE i \in At("flush") : \A j \in At("flush") : j <= i

C30_PadTwice ==
    /\ last.op = "insert_bytes" /\ Done /\ At("lock") # {}
    /\ Cardinality({i \in At("write") : \E j \in At("truncate") : j < i /\ At("read") = {}}) = 0
    /\ last.size > last.bufsize
C30_DeleteTwice == last.op = "delete_bytes" /\ Done /\ Cardinality(At("write")) >= 2
C30_ScanTwice == last.op = "fix_brokenness" /\ Done /\ Cardinality(At("read")) >= 2
C30_NegativeMove == last.op = "insert_bytes" /\ Done /\ last.status = "ok" /\ last.offset > last.filesize

----------------------------------------------------------------------------
(* More properties of save, checked under Spec *)

\* an entry of the object as an item: the length of the value and the kind
\* shifted past the read-only bit, each a 32-bit little-endian word, the key,
\* a NUL, the value
Entry(e) ==
    <<Len(e[2].value) % 256, (Len(e[2].value) \div 256) % 256, 0, 0>>
        \o <<2 * e[2].kind, 0, 0, 0>> \o e[1] \o <<0>> \o e[2].value

\* the bytes between the header and the footer that end f, for the entries of
\* the object
ItemsArea(f) == ReadAt(f, Len(f) - 32 - ItemBytes(dict, 1), ItemBytes(dict, 1))

\* the orders in which n entries can be written
Orders(n) == {o \in [1..n -> 1..n] : \A i, j \in 1..n : o[i] = o[j] => i = j}

\* C27: the items area that save writes is the items of the entries of the
\* object, each entry once, one after the other in an order in which no item
\* is shorter than the one before it; an item takes 8 + len(key) + 1 +
\* len(value) bytes.
C27_ItemsSortedByLength ==
    Saved =>
        LET its == items(dict, casemap)
            n == Len(its)
        IN /\ \A i \in 1..n : Len(Entry(its[i])) = 8 + Len(its[i][1]) + 1 + Len(its[i][2].value)
           /\ \E o \in Orders(n) :
                /\ ItemsArea(file) = Join([i \in 1..n |-> Entry(its[o[i]])])
                /\ \A i, j \in 1..n : i < j => Len(Entry(its[o[i]])) <= Len(Entry(its[o[j]]))

\* C27 happens: the object held a longer item before a shorter one, and save
\* wrote them
C27_Witness ==
    /\ Saved
    /\ Len(dict) = 2
    /\ Len(Entry(items(dict, casemap)[1])) > Len(Entry(items(dict, casemap)[2]))

----------------------------------------------------------------------------
(* Properties of load, checked under LocateSpec *)

\* the tag found in the file holds one item, which fills it up to the footer:
\* eight bytes, a key of printable letters that ends at the first NUL, and as
\* many bytes of value as the item declares
OneItem(f) ==
    /\ Finds(f) /\ TagIn(f).items = Some(1)
    /\ LET tag == TagIn(f).tag[1]
           nul == NulAt(tag, 8)
       IN /\ nul < Len(tag)
          /\ \A i \in 9..nul : tag[i] >= 65 /\ tag[i] <= 122
          /\ Len(tag) = nul + 1 + uint_le(ReadAt(tag, 0, 4)) + 32
          /\ ItemKind(ReadAt(tag, 4, 4)) = TEXT
\* the key of that item and its value
OneKey(f) == Slice(TagIn(f).tag[1], 8, NulAt(TagIn(f).tag[1], 8))
OneValue(f) == ReadAt(TagIn(f).tag[1], NulAt(TagIn(f).tag[1], 8) + 1,
                      uint_le(ReadAt(TagIn(f).tag[1], 0, 4)))
\* load stored the item: the object holds it and nothing else
OneStored(f) ==
    /\ last.status = "ok"
    /\ Len(dict) = 1
    /\ \A e \in ItemSet(dict, casemap) :
           e[1] = OneKey(f) /\ e[2].kind = TEXT /\ e[2].value = OneValue(f)

\* C28 as stated: no maximum key length at parse: a well-framed item whose
\* key is longer than 255 bytes is parsed and stored by load without error.
C28_LongKeyStored ==
    (last.op = "load" /\ OneItem(file) /\ Len(OneKey(file)) > 255) => OneStored(file)

\* C28 (amended): load stores each item through __setitem__, which checks the
\* key: a well-framed item whose key is longer than 255 bytes makes load
\* raise KeyError; one whose key has 2 to 255 bytes, and is no reserved
\* word, is parsed and stored with exactly `size` bytes of value.
C28_LongKeyRefused ==
    (last.op = "load" /\ OneItem(file)) =>
        /\ Len(OneKey(file)) > 255 => last.status = "KeyError"
        /\ (Len(OneKey(file)) >= 2 /\ Len(OneKey(file)) <= 255
               /\ OneKey(file) \notin ReservedKeys) => OneStored(file)

\* C28 happens: a tag whose key has 256 bytes was loaded, and load raised
C28_Witness ==
    /\ last.op = "load" /\ OneItem(file)
    /\ Len(OneKey(file)) = 256
    /\ last.status = "KeyError"

\* a key of 255 bytes was stored
C28_LongestKeyStored ==
    last.op = "load" /\ OneItem(file) /\ Len(OneKey(file)) = 255 /\ OneStored(file)

----------------------------------------------------------------------------
(* Properties of save, checked under LocateSpec *)

\* the bytes of the file that save keeps: all of them if no tag is located,
\* those before the start of a tag located at the end, those around a tag
\* located at the start
KeptBytes(r) ==
    LET d == Located(r)
    IN IF d.start = None THEN r.pre
       ELSE IF d.is_at_start
            THEN SubSeq(r.pre, 1, d.start[1]) \o SubSeq(r.pre, d.end[1] + 1, Len(r.pre))
       ELSE SubSeq(r.pre, 1, d.start[1])

\* C29: save removes the whole span it located and changes no other byte
\* that was there: with a tag at the end, the bytes before its start stay and
\* all from its start to the end of the file go, an ID3v1 trailer after it
\* included; with a tag at the start, the bytes after it stay in order and
\* move down to offset 0; with no tag, every byte stays; the new tag follows
\* the bytes that stay.
C29_SaveKeepsTheRest ==
    Saved =>
        /\ Located(last).is_at_start => Located(last).start = Some(0)
        /\ Len(file) = Len(KeptBytes(last)) + ItemBytes(dict, 1) + 64
        /\ SubSeq(file, 1, Len(KeptBytes(last))) = KeptBytes(last)

\* C29 happens: a file with a tag before an ID3v1 trailer was saved, and
\* tag and trailer are gone
C29_Witness ==
    /\ Saved
    /\ HasTrailer(last.pre)
    /\ Located(last).start # None /\ ~Located(last).is_at_start
    /\ Located(last).end[1] = Len(last.pre) - 128
    /\ Located(last).start[1] > 0
    /\ ~HasTrailer(file)

\* a save with a tag at the start that audio follows, and one with no tag
C29_AtStart ==
    /\ Saved /\ Located(last).is_at_start
    /\ Located(last).end[1] < Len(last.pre)
C29_NoTag == Saved /\ Located(last).start = None /\ Len(last.pre) > 0
====
